---- MODULE Spec2Model ----
(***************************************************************************)
(* A model of the input-processing core of the libhmk keyboard firmware:   *)
(* matrix_scan (src/src/matrix.c), layout_task and the layout resolver     *)
(* (src/src/layout.c) and the advanced-key engine with its combo detector  *)
(* (src/src/advanced_keys.c).                                              *)
(*                                                                         *)
(* The firmware is single threaded: the main loop calls matrix_scan and    *)
(* then layout_task, and the millisecond timer advances on its own.  Each  *)
(* C function is an operator from the firmware memory (a record S with one *)
(* field per C global) to the memory after the call; an action applies a   *)
(* whole handler and commits the result to the variables.                  *)
(***************************************************************************)
EXTENDS Integers, Sequences, FiniteSets, TLC

VARIABLES
  now,                      \* timer_read(): the 32-bit millisecond timer
  pc,                       \* position of the main loop: "scan" or "task"
  rounds,                   \* rounds of the main loop so far
  profiles,                 \* eeconfig->profiles: the persisted configuration
  config,                   \* which persisted configuration (eeconfig) is loaded
  key_matrix,               \* matrix.c: key_state_t key_matrix[NUM_KEYS]
  rapid_trigger_disabled,   \* matrix.c: bitmap, as the set of keys whose bit is set
  current_profile,          \* eeconfig->current_profile
  last_non_default_profile, \* eeconfig->last_non_default_profile
  layer_mask,               \* layout.c: bit mask, as the set of layers whose bit is set
  default_layer,            \* layout.c
  should_send_reports,      \* layout.c
  key_disabled,             \* layout.c: bitmap, as a set of keys
  key_press_states,         \* layout.c: bitmap, as a set of keys
  active_keycodes,          \* layout.c: uint8_t active_keycodes[NUM_KEYS]
  advanced_key_indices,     \* layout.c: [layer][key] -> index + 1, 0 = none
  active_advanced_keys,     \* layout.c: uint8_t active_advanced_keys[NUM_KEYS]
  pending_events,           \* layout.c: pending_events[0 .. pending_count-1]
  last_ak_tick,             \* layout.c: static of layout_task
  ak_states,                \* advanced_keys.c: ak_states[NUM_ADVANCED_KEYS]
  event_queue,              \* advanced_keys.c: the combo ring buffer, head first
  pending_activity,         \* advanced_keys.c
  combo_key_bitmap,         \* advanced_keys.c: bitmap, as a set of keys
  combo_key_bitmap_layer,   \* advanced_keys.c
  flush_in_progress,        \* advanced_keys.c
  hid_keycodes,             \* hid: the keycodes of the report under construction
  sent_report,              \* hid: the keycode set of the last report sent
  deferred_actions,         \* deferred_actions: the queued actions, oldest first
  log,                      \* history: the calls made by the last layout_task
  last_reg,                 \* history: per key, the keycode its plain press registered
  th_alone,                 \* history: no other key edge since the Tap-Hold press
  last_press,               \* history: key and time of the last press edge layout_task saw
  readings,                 \* history: the distances key 0 read while it replays Script
  last_reverted             \* history: the keys whose press the last matrix_scan reverted

vars ==
  << now, pc, rounds, profiles, config, key_matrix, rapid_trigger_disabled, current_profile,
     last_non_default_profile, layer_mask, default_layer, should_send_reports,
     key_disabled, key_press_states, active_keycodes, advanced_key_indices,
     active_advanced_keys, pending_events, last_ak_tick, ak_states, event_queue,
     pending_activity, combo_key_bitmap, combo_key_bitmap_layer,
     flush_in_progress, hid_keycodes, sent_report, deferred_actions, log,
     last_reg, th_alone, last_press, readings, last_reverted >>

-----------------------------------------------------------------------------
(* Bounds of the model *)

\* The timer runs from 0 to MaxTime and then stops.
MaxTime == 4

\* The main loop is followed for this many rounds.
MaxRounds == 4

\* At most this many keys are held down at the same time.
MaxDown == 2

\* The main loop is followed for this many rounds where the pending events
\* buffer is to fill up.
MaxBurst == 14

\* The main loop is followed for this many rounds where the combo queue is to
\* fill up.
MaxSeries == 34

\* Width of the millisecond timer in the model.  The code's timer is 32 bits
\* wide; TLC's integers are not, so the model's timer wraps at 2^TimerBits.
TimerBits == 16
TimerModulus == 2 ^ TimerBits

-----------------------------------------------------------------------------
(* Program constants *)

NUM_PROFILES == 2
NUM_LAYERS == 2
NUM_KEYS == 4
NUM_ADVANCED_KEYS == 3
MAX_PENDING_EVENTS == 8
COMBO_QUEUE_SIZE == 16
DEFAULT_COMBO_TERM == 50
COMBO_KEY_NONE == 255

Keys == 0 .. (NUM_KEYS - 1)
Layers == 0 .. (NUM_LAYERS - 1)
AkSlots == 0 .. (NUM_ADVANCED_KEYS - 1)

\* unsigned subtraction at the timer's width, as timer_elapsed and the combo
\* code compute it
Sub32(a, b) == (a - b) % TimerModulus

SetMax(s) == CHOOSE x \in s : \A y \in s : y <= x

-----------------------------------------------------------------------------
(* Keycodes.  keycodes.h is not part of the sources; the encoding follows   *)
(* the specification: an 8-bit code whose ranges are checked by inclusion. *)

KC_NO == 0
KC_TRANSPARENT == 1
KC_A == 4
KC_B == 5
KC_C == 6
KC_D == 7
KC_E == 8
KC_F == 9
KC_G == 10
KC_LCTL == 224
HID_KEYCODE_MAX == 231
MO_BASE == 232
PF_BASE == 240
SP_KEY_LOCK == 248
SP_LAYER_LOCK == 249
SP_PROFILE_SWAP == 250
SP_PROFILE_NEXT == 251

MO(n) == MO_BASE + n
PF(n) == PF_BASE + n
IsHidKeycode(kc) == kc >= KC_A /\ kc <= HID_KEYCODE_MAX
IsMomentaryLayer(kc) == kc >= MO_BASE /\ kc < PF_BASE
IsProfile(kc) == kc >= PF_BASE /\ kc < SP_KEY_LOCK
MO_GET_LAYER(kc) == kc - MO_BASE
PF_GET_PROFILE(kc) == kc - PF_BASE

-----------------------------------------------------------------------------
(* The persisted configuration (eeconfig->profiles).  The model is checked *)
(* for a few configurations; `config` names the one that is loaded.        *)

\* Tapping term of the Tap-Hold and Toggle keys of the configurations, in ms.
TappingTerm == 2

\* Term of the combos of the configurations, in ms.
ComboTerm == 1

\* Travel distance of a key that is held down in the pipeline configurations.
DistDown == 128

AkBlank ==
  [ type |-> "NONE", layer |-> 0, key |-> 0,
    secondary_key |-> 0, behavior |-> "LAST", bottom_out_point |-> 0,
    tap_keycode |-> KC_NO, hold_keycode |-> KC_NO, tapping_term |-> 0,
    hold_on_other_key_press |-> FALSE, permissive_hold |-> FALSE,
    retro_tapping |-> FALSE,
    keycode |-> KC_NO,
    dks_keycodes |-> << KC_NO, KC_NO, KC_NO, KC_NO >>,
    dks_bitmap |-> << 0, 0, 0, 0 >>,
    keys |-> << COMBO_KEY_NONE, COMBO_KEY_NONE, COMBO_KEY_NONE, COMBO_KEY_NONE >>,
    output_keycode |-> KC_NO, term |-> 0,
    macro_index |-> 0 ]

AkMacro(layer, key, macro_index) ==
  [ AkBlank EXCEPT !.type = "MACRO", !.layer = layer, !.key = key,
                   !.macro_index = macro_index ]

AkTapHold(layer, key, tap, hold, hoop, perm, retro) ==
  [ AkBlank EXCEPT !.type = "TAP_HOLD", !.layer = layer, !.key = key,
                   !.tap_keycode = tap, !.hold_keycode = hold,
                   !.tapping_term = TappingTerm,
                   !.hold_on_other_key_press = hoop, !.permissive_hold = perm,
                   !.retro_tapping = retro ]

AkCombo(layer, k1, k2, out) ==
  [ AkBlank EXCEPT !.type = "COMBO", !.layer = layer,
                   !.keys = << k1, k2, COMBO_KEY_NONE, COMBO_KEY_NONE >>,
                   !.output_keycode = out, !.term = ComboTerm ]

AkNullBind(layer, key, secondary, behavior, bop) ==
  [ AkBlank EXCEPT !.type = "NULL_BIND", !.layer = layer, !.key = key,
                   !.secondary_key = secondary, !.behavior = behavior,
                   !.bottom_out_point = bop ]

AkToggle(layer, key, kc) ==
  [ AkBlank EXCEPT !.type = "TOGGLE", !.layer = layer, !.key = key,
                   !.keycode = kc, !.tapping_term = TappingTerm ]

\* Plain threshold actuation (rt_down = 0) at DistDown.
PlainActuation ==
  [ k \in Keys |-> [ actuation_point |-> DistDown, rt_down |-> 0, rt_up |-> 0,
                     continuous |-> FALSE ] ]

\* The configurations with a Tap-Hold key (key 0 on layer 0), a two-key combo
\* (keys 1 and 3 on layer 0), a momentary-layer key (key 2) and plain keys;
\* layer 1 has the layer lock on key 0 and the key of profile 1 on key 3.
ThProfile(cfg) ==
  [ keymap |->
      << << KC_A, KC_B, MO(1), KC_D >>,
         << SP_LAYER_LOCK, KC_C, KC_TRANSPARENT, PF(1) >> >>,
    advanced_keys |->
      << AkTapHold(0, 0, KC_A, KC_LCTL, cfg = "th_hoop", cfg = "th_permissive",
                   cfg = "th_retro"),
         AkCombo(0, 1, 3, KC_G),
         AkBlank >>,
    actuation_map |-> PlainActuation ]

\* A macro event
MacroEvent(action, keycode) == [ action |-> action, keycode |-> keycode ]

\* The second profile of every configuration: no advanced keys.
BareProfile ==
  [ keymap |->
      << << KC_E, KC_F, MO(1), PF(0) >>,
         << KC_TRANSPARENT, KC_TRANSPARENT, KC_TRANSPARENT, KC_TRANSPARENT >> >>,
    advanced_keys |-> << AkBlank, AkBlank, AkBlank >>,
    actuation_map |-> PlainActuation ]

\* The Rapid Trigger configuration: plain keycodes, no advanced keys; key 0
\* has Rapid Trigger with rt_up given, key 1 Continuous Rapid Trigger with
\* rt_up left 0, key 2 plain threshold actuation and key 3 Rapid Trigger with
\* a deeper actuation point.
RtProfile ==
  [ keymap |->
      << << KC_A, KC_B, KC_C, KC_D >>,
         << KC_TRANSPARENT, KC_TRANSPARENT, KC_TRANSPARENT, KC_TRANSPARENT >> >>,
    advanced_keys |-> << AkBlank, AkBlank, AkBlank >>,
    actuation_map |->
      [ k \in Keys |->
          CASE k = 0 -> [ actuation_point |-> 30, rt_down |-> 10, rt_up |-> 10,
                          continuous |-> FALSE ]
            [] k = 1 -> [ actuation_point |-> 30, rt_down |-> 10, rt_up |-> 0,
                          continuous |-> TRUE ]
            [] k = 2 -> [ actuation_point |-> 30, rt_down |-> 0, rt_up |-> 0,
                          continuous |-> FALSE ]
            [] OTHER -> [ actuation_point |-> 40, rt_down |-> 10, rt_up |-> 10,
                          continuous |-> FALSE ] ] ]

Profiles(cfg) ==
  CASE cfg \in { "th", "th_hoop", "th_permissive", "th_retro" } -> << ThProfile(cfg), BareProfile >>
    [] cfg = "rt" -> << RtProfile, BareProfile >>
    \* The configuration with a Tap-Hold key (key 0) and three plain keys, no
    \* combo and one layer in use.
    [] cfg = "th_plain" ->
      << [ keymap |->
               << << KC_A, KC_B, KC_C, KC_D >>,
                  << KC_TRANSPARENT, KC_TRANSPARENT, KC_TRANSPARENT, KC_TRANSPARENT >> >>,
             advanced_keys |->
               << AkTapHold(0, 0, KC_A, KC_LCTL, FALSE, FALSE, FALSE), AkBlank, AkBlank >>,
             actuation_map |-> PlainActuation ],
         BareProfile >>
    \* The configuration for the keycode lookup: over the two layers a key has a
    \* keycode on both, on the lower only, on the upper only, or on neither.
    [] cfg = "layers" ->
      << [ keymap |->
               << << KC_A, KC_B, KC_TRANSPARENT, KC_TRANSPARENT >>,
                  << KC_C, KC_TRANSPARENT, KC_D, KC_TRANSPARENT >> >>,
             advanced_keys |-> << AkBlank, AkBlank, AkBlank >>,
             actuation_map |-> PlainActuation ],
         BareProfile >>
    \* The configuration with keys of every kind: on layer 0 a Tap-Hold key
    \* (key 0), a plain key without a keycode (key 1), the momentary-layer key
    \* (key 2) and a Toggle key (key 3); on layer 1 key 1 has a keycode, key 3
    \* has none, and no key is an advanced key.
    [] cfg = "kinds" ->
      << [ keymap |->
               << << KC_A, KC_NO, MO(1), KC_D >>,
                  << KC_TRANSPARENT, KC_B, KC_TRANSPARENT, KC_NO >> >>,
             advanced_keys |->
               << AkTapHold(0, 0, KC_A, KC_LCTL, FALSE, FALSE, FALSE),
                  AkToggle(0, 3, KC_D), AkBlank >>,
             actuation_map |-> PlainActuation ],
         BareProfile >>
    \* The configuration with invalid entries: slot 0 has a type that is none of
    \* the advanced key types and names key 1, slot 1 is a Tap-Hold entry on a
    \* layer that does not exist, slot 2 a Toggle entry on a key that does not
    \* exist.
    [] cfg = "invalid" ->
      << [ keymap |->
               << << KC_A, KC_B, KC_C, KC_D >>,
                  << KC_TRANSPARENT, KC_TRANSPARENT, KC_TRANSPARENT, KC_TRANSPARENT >> >>,
             advanced_keys |->
               << [ AkBlank EXCEPT !.type = "UNKNOWN", !.layer = 0, !.key = 1 ],
                  AkTapHold(NUM_LAYERS, 0, KC_A, KC_LCTL, FALSE, FALSE, FALSE),
                  AkToggle(0, NUM_KEYS, KC_D) >>,
             actuation_map |-> PlainActuation ],
         BareProfile >>
    \* The configuration with a Macro key (key 1), bound to macro 0, which
    \* presses KC_G and ends.
    [] cfg = "macro" ->
      << [ keymap |->
               << << KC_A, KC_B, KC_C, KC_D >>,
                  << KC_TRANSPARENT, KC_TRANSPARENT, KC_TRANSPARENT, KC_TRANSPARENT >> >>,
             advanced_keys |-> << AkMacro(0, 1, 0), AkBlank, AkBlank >>,
             macros |-> << << MacroEvent("PRESS", KC_G), MacroEvent("END", KC_NO) >> >>,
             actuation_map |-> PlainActuation ],
         BareProfile >>
    \* The profile with a Null Bind pair of behavior Last (keys 0 and 1), a Toggle
    \* key (key 2) and a plain key; no key changes the layer or the profile.
    [] cfg = "nb_last" ->
      << [ keymap |->
               << << KC_A, KC_D, KC_C, KC_B >>,
                  << KC_TRANSPARENT, KC_TRANSPARENT, KC_TRANSPARENT, KC_TRANSPARENT >> >>,
             advanced_keys |->
               << AkNullBind(0, 0, 1, "LAST", 0),
                  AkToggle(0, 2, KC_C),
                  AkBlank >>,
             actuation_map |-> PlainActuation ],
         BareProfile >>
    \* The profile with a Null Bind pair of behavior Distance (keys 0 and 1) and
    \* plain keys.
    [] cfg = "nb_distance" ->
      << [ keymap |->
               << << KC_A, KC_D, KC_C, KC_B >>,
                  << KC_TRANSPARENT, KC_TRANSPARENT, KC_TRANSPARENT, KC_TRANSPARENT >> >>,
             advanced_keys |->
               << AkNullBind(0, 0, 1, "DISTANCE", 0),
                  AkBlank,
                  AkBlank >>,
             actuation_map |-> PlainActuation ],
         BareProfile >>
    \* The profile with a Null Bind pair of behavior Last (keys 0 and 1) whose
    \* bottom-out point is the deeper of the two levels a key can be down at, and
    \* plain keys.
    [] cfg = "nb_bottom" ->
      << [ keymap |->
               << << KC_A, KC_D, KC_C, KC_B >>,
                  << KC_TRANSPARENT, KC_TRANSPARENT, KC_TRANSPARENT, KC_TRANSPARENT >> >>,
             advanced_keys |->
               << AkNullBind(0, 0, 1, "LAST", DistDown + 1),
                  AkBlank,
                  AkBlank >>,
             actuation_map |-> PlainActuation ],
         BareProfile >>
    \* The configuration with three combos on layer 0 over plain keys: slot 0
    \* needs the keys 1, 3 and 2, the slots 1 and 2 both need the keys 1 and 3.
    [] cfg = "combos" ->
      << [ keymap |->
               << << KC_A, KC_B, KC_C, KC_D >>,
                  << KC_TRANSPARENT, KC_TRANSPARENT, KC_TRANSPARENT, KC_TRANSPARENT >> >>,
             advanced_keys |->
               << [ AkCombo(0, 1, 3, KC_E) EXCEPT
                      !.keys = << 1, 3, 2, COMBO_KEY_NONE >> ],
                  AkCombo(0, 3, 1, KC_F),
                  AkCombo(0, 1, 3, KC_G) >>,
             actuation_map |-> PlainActuation ],
         BareProfile >>
    \* The configuration with a Dynamic Keystroke key (key 0) and plain keys:
    \* the first binding is pressed in the press phase and released in the
    \* release phase (bitmap 1 + 2 * 64), the second is tapped in the bottom-out
    \* phase (bitmap 3 * 4); the bottom-out point is the deeper of the two
    \* levels a key can be down at.
    [] cfg = "dks" ->
      << [ keymap |->
               << << KC_A, KC_D, KC_C, KC_B >>,
                  << KC_TRANSPARENT, KC_TRANSPARENT, KC_TRANSPARENT, KC_TRANSPARENT >> >>,
             advanced_keys |->
               << [ AkBlank EXCEPT
                      !.type = "DYNAMIC_KEYSTROKE", !.layer = 0, !.key = 0,
                      !.dks_keycodes = << KC_E, KC_F, KC_NO, KC_NO >>,
                      !.dks_bitmap = << 129, 12, 0, 0 >>,
                      !.bottom_out_point = DistDown + 1 ],
                  AkBlank,
                  AkBlank >>,
             actuation_map |-> PlainActuation ],
         BareProfile >>
    \* The configuration with two momentary-layer keys for layer 1 (keys 0 and
    \* 1) and a key (key 2) that is plain on layer 0 and a Dynamic Keystroke key
    \* on layer 1: its press phase presses the first keycode, which its release
    \* phase releases (bitmap 1 + 2 * 64), and taps the key lock (bitmap 3); it
    \* never bottoms out.
    [] cfg = "locks" ->
      << [ keymap |->
               << << MO(1), MO(1), KC_C, KC_D >>,
                  << KC_TRANSPARENT, KC_TRANSPARENT, KC_TRANSPARENT, KC_TRANSPARENT >> >>,
             advanced_keys |->
               << [ AkBlank EXCEPT
                      !.type = "DYNAMIC_KEYSTROKE", !.layer = 1, !.key = 2,
                      !.dks_keycodes = << KC_E, SP_KEY_LOCK, KC_NO, KC_NO >>,
                      !.dks_bitmap = << 129, 3, 0, 0 >>,
                      !.bottom_out_point = DistDown + 1 ],
                  AkBlank,
                  AkBlank >>,
             actuation_map |-> PlainActuation ],
         BareProfile >>
    \* The configuration with two Dynamic Keystroke keys (keys 0 and 1), each
    \* tapping its four keycodes in the bottom-out phase and in the release phase
    \* (bitmap 3 * 4 + 3 * 64), and a combo of keys 2 and 3.
    [] cfg = "crowd" ->
      << [ keymap |->
               << << KC_A, KC_B, KC_C, KC_D >>,
                  << KC_TRANSPARENT, KC_TRANSPARENT, KC_TRANSPARENT, KC_TRANSPARENT >> >>,
             advanced_keys |->
               << [ AkBlank EXCEPT
                      !.type = "DYNAMIC_KEYSTROKE", !.layer = 0, !.key = 0,
                      !.dks_keycodes = << KC_A, KC_B, KC_E, KC_F >>,
                      !.dks_bitmap = << 204, 204, 204, 204 >>,
                      !.bottom_out_point = DistDown + 1 ],
                  [ AkBlank EXCEPT
                      !.type = "DYNAMIC_KEYSTROKE", !.layer = 0, !.key = 1,
                      !.dks_keycodes = << KC_A, KC_B, KC_E, KC_F >>,
                      !.dks_bitmap = << 204, 204, 204, 204 >>,
                      !.bottom_out_point = DistDown + 1 ],
                  AkCombo(0, 2, 3, KC_G) >>,
             actuation_map |-> PlainActuation ],
         BareProfile >>
    \* The configuration "nb": a Null Bind pair (keys 0 and 1), a Toggle key
    \* (key 2) and a profile key (key 3).
    [] OTHER ->
      << [ keymap |->
               << << KC_A, KC_D, KC_C, PF(1) >>,
                  << KC_TRANSPARENT, KC_TRANSPARENT, KC_TRANSPARENT, KC_TRANSPARENT >> >>,
             advanced_keys |->
               << AkNullBind(0, 0, 1, "LAST", 0),
                  AkToggle(0, 2, KC_C),
                  AkBlank >>,
             actuation_map |-> PlainActuation ],
         BareProfile >>

\* CURRENT_PROFILE: eeconfig->profiles[eeconfig->current_profile]
CURRENT_PROFILE(S) == S.profiles[S.current_profile + 1]
Keymap(S, layer, key) == CURRENT_PROFILE(S).keymap[layer + 1][key + 1]
AdvancedKey(S, i) == CURRENT_PROFILE(S).advanced_keys[i + 1]

\* The travel distances a scan can read for a key: at rest or down, and for the
\* Null Bind pair that compares distances a second, deeper level.
DistLevels(cfg) ==
  IF cfg \in { "nb_distance", "nb_bottom", "dks", "crowd" }
  THEN { 0, DistDown, DistDown + 1 } ELSE { 0, DistDown }

\* The travel distances a scan can read for each key in the Rapid Trigger
\* configuration.
RtLevels(k) ==
  CASE k = 0 -> { 0, 20, 40, 42, 48, 50, 55, 60 }
    [] k = 1 -> { 0, 10, 25, 35 }
    [] k = 2 -> { 0, 30, 50 }
    [] OTHER -> { 0, 60 }

\* The travel of key 0 over consecutive scans that `readings` follows, the
\* other keys at rest.
Script == << 0, 20, 40, 60, 55, 48, 42, 50 >>

-----------------------------------------------------------------------------
(* matrix.c *)

\* A per-key step that leaves the extremum where the press set it while the
\* key travels further down.
matrix_scan_key_fixed_extremum(ks, actuation, rt_disabled, d) ==
  LET k0 == [ ks EXCEPT !.distance = d ]
      reset_point == IF actuation.continuous THEN 0 ELSE actuation.actuation_point
      rt_up == IF actuation.rt_up = 0 THEN actuation.rt_down ELSE actuation.rt_up
  IN  IF rt_disabled \/ actuation.rt_down = 0
      THEN [ k0 EXCEPT !.key_dir = "INACTIVE",
                       !.is_pressed = (d >= actuation.actuation_point) ]
      ELSE CASE k0.key_dir = "INACTIVE" ->
                  IF d > actuation.actuation_point
                  THEN [ k0 EXCEPT !.extremum = d, !.key_dir = "DOWN",
                                   !.is_pressed = TRUE ]
                  ELSE k0
             [] k0.key_dir = "DOWN" ->
                  IF d <= reset_point
                  THEN [ k0 EXCEPT !.extremum = d, !.key_dir = "INACTIVE",
                                   !.is_pressed = FALSE ]
                  ELSE IF d + rt_up < k0.extremum
                  THEN [ k0 EXCEPT !.extremum = d, !.key_dir = "UP",
                                   !.is_pressed = FALSE ]
                  ELSE k0
             [] k0.key_dir = "UP" ->
                  IF d <= reset_point
                  THEN [ k0 EXCEPT !.extremum = d, !.key_dir = "INACTIVE",
                                   !.is_pressed = FALSE ]
                  ELSE IF k0.extremum + actuation.rt_down < d
                  THEN [ k0 EXCEPT !.extremum = d, !.key_dir = "DOWN",
                                   !.is_pressed = TRUE ]
                  ELSE IF d < k0.extremum
                  THEN [ k0 EXCEPT !.extremum = d ]
                  ELSE k0
             [] OTHER -> k0

\* A per-key step whose Rapid Trigger release compares with the configured
\* rt_up as it is, with no fallback to rt_down when it is 0.
matrix_scan_key_raw_rt_up(ks, actuation, rt_disabled, d) ==
  LET k0 == [ ks EXCEPT !.distance = d ]
      reset_point == IF actuation.continuous THEN 0 ELSE actuation.actuation_point
  IN  IF rt_disabled \/ actuation.rt_down = 0
      THEN [ k0 EXCEPT !.key_dir = "INACTIVE",
                       !.is_pressed = (d >= actuation.actuation_point) ]
      ELSE CASE k0.key_dir = "INACTIVE" ->
                  IF d > actuation.actuation_point
                  THEN [ k0 EXCEPT !.extremum = d, !.key_dir = "DOWN",
                                   !.is_pressed = TRUE ]
                  ELSE k0
             [] k0.key_dir = "DOWN" ->
                  IF d <= reset_point
                  THEN [ k0 EXCEPT !.extremum = d, !.key_dir = "INACTIVE",
                                   !.is_pressed = FALSE ]
                  ELSE IF d + actuation.rt_up < k0.extremum
                  THEN [ k0 EXCEPT !.extremum = d, !.key_dir = "UP",
                                   !.is_pressed = FALSE ]
                  ELSE IF d > k0.extremum
                  THEN [ k0 EXCEPT !.extremum = d ]
                  ELSE k0
             [] k0.key_dir = "UP" ->
                  IF d <= reset_point
                  THEN [ k0 EXCEPT !.extremum = d, !.key_dir = "INACTIVE",
                                   !.is_pressed = FALSE ]
                  ELSE IF k0.extremum + actuation.rt_down < d
                  THEN [ k0 EXCEPT !.extremum = d, !.key_dir = "DOWN",
                                   !.is_pressed = TRUE ]
                  ELSE IF d < k0.extremum
                  THEN [ k0 EXCEPT !.extremum = d ]
                  ELSE k0
             [] OTHER -> k0

\* A Rapid Trigger machine whose release by Rapid Trigger turns the direction
\* to Up and leaves is_pressed as it was.
matrix_scan_key_up_still_pressed(ks, actuation, rt_disabled, d) ==
  LET k0 == [ ks EXCEPT !.distance = d ]
      reset_point == IF actuation.continuous THEN 0 ELSE actuation.actuation_point
      rt_up == IF actuation.rt_up = 0 THEN actuation.rt_down ELSE actuation.rt_up
  IN  IF rt_disabled \/ actuation.rt_down = 0
      THEN [ k0 EXCEPT !.key_dir = "INACTIVE",
                       !.is_pressed = (d >= actuation.actuation_point) ]
      ELSE CASE k0.key_dir = "INACTIVE" ->
                  IF d > actuation.actuation_point
                  THEN [ k0 EXCEPT !.extremum = d, !.key_dir = "DOWN",
                                   !.is_pressed = TRUE ]
                  ELSE k0
             [] k0.key_dir = "DOWN" ->
                  IF d <= reset_point
                  THEN [ k0 EXCEPT !.extremum = d, !.key_dir = "INACTIVE",
                                   !.is_pressed = FALSE ]
                  ELSE IF d + rt_up < k0.extremum
                  THEN [ k0 EXCEPT !.extremum = d, !.key_dir = "UP" ]
                  ELSE IF d > k0.extremum
                  THEN [ k0 EXCEPT !.extremum = d ]
                  ELSE k0
             [] k0.key_dir = "UP" ->
                  IF d <= reset_point
                  THEN [ k0 EXCEPT !.extremum = d, !.key_dir = "INACTIVE",
                                   !.is_pressed = FALSE ]
                  ELSE IF k0.extremum + actuation.rt_down < d
                  THEN [ k0 EXCEPT !.extremum = d, !.key_dir = "DOWN",
                                   !.is_pressed = TRUE ]
                  ELSE IF d < k0.extremum
                  THEN [ k0 EXCEPT !.extremum = d ]
                  ELSE k0
             [] OTHER -> k0

\* One iteration of the per-key loop of matrix_scan for a key that now reads
\* travel distance d: the threshold actuation or the Rapid Trigger machine.
matrix_scan_key(ks, actuation, rt_disabled, d) ==
  LET k0 == [ ks EXCEPT !.distance = d ]
      reset_point == IF actuation.continuous THEN 0 ELSE actuation.actuation_point
      rt_up == IF actuation.rt_up = 0 THEN actuation.rt_down ELSE actuation.rt_up
  IN  IF rt_disabled \/ actuation.rt_down = 0
      THEN [ k0 EXCEPT !.key_dir = "INACTIVE",
                       !.is_pressed = (d >= actuation.actuation_point) ]
      ELSE CASE k0.key_dir = "INACTIVE" ->
                  IF d > actuation.actuation_point
                  THEN [ k0 EXCEPT !.extremum = d, !.key_dir = "DOWN",
                                   !.is_pressed = TRUE ]
                  ELSE k0
             [] k0.key_dir = "DOWN" ->
                  IF d <= reset_point
                  THEN [ k0 EXCEPT !.extremum = d, !.key_dir = "INACTIVE",
                                   !.is_pressed = FALSE ]
                  ELSE IF d + rt_up < k0.extremum
                  THEN [ k0 EXCEPT !.extremum = d, !.key_dir = "UP",
                                   !.is_pressed = FALSE ]
                  ELSE IF d > k0.extremum
                  THEN [ k0 EXCEPT !.extremum = d ]
                  ELSE k0
             [] k0.key_dir = "UP" ->
                  IF d <= reset_point
                  THEN [ k0 EXCEPT !.extremum = d, !.key_dir = "INACTIVE",
                                   !.is_pressed = FALSE ]
                  ELSE IF k0.extremum + actuation.rt_down < d
                  THEN [ k0 EXCEPT !.extremum = d, !.key_dir = "DOWN",
                                   !.is_pressed = TRUE ]
                  ELSE IF d < k0.extremum
                  THEN [ k0 EXCEPT !.extremum = d ]
                  ELSE k0
             [] OTHER -> k0

\* The pressed_keys buffer after the per-key loop: the keys that went from
\* not pressed to pressed in this scan, in key order, with their distance_delta.
RECURSIVE pressed_keys_from(_, _, _, _)
pressed_keys_from(old, new, actuation_map, i) ==
  IF i >= NUM_KEYS THEN << >>
  ELSE LET ap == actuation_map[i].actuation_point
           rest == pressed_keys_from(old, new, actuation_map, i + 1)
       IN  IF ~old[i].is_pressed /\ new[i].is_pressed
           THEN << [ key |-> i,
                     distance_delta |-> IF new[i].distance > ap
                                        THEN new[i].distance - ap ELSE 0 ] >> \o rest
           ELSE rest

SwapAt(p, i, j) == [ p EXCEPT ![i] = p[j], ![j] = p[i] ]

\* An inner loop that also swaps entries of equal delta.
RECURSIVE sort_pressed_inner_inclusive(_, _, _)
sort_pressed_inner_inclusive(p, i, j) ==
  IF j > Len(p) THEN p
  ELSE sort_pressed_inner_inclusive(
         IF p[j].distance_delta >= p[i].distance_delta THEN SwapAt(p, i, j) ELSE p,
         i, j + 1)

\* The inner and the outer loop of the sort of pressed_keys (descending delta).
RECURSIVE sort_pressed_inner(_, _, _)
sort_pressed_inner(p, i, j) ==
  IF j > Len(p) THEN p
  ELSE sort_pressed_inner(
         IF p[j].distance_delta > p[i].distance_delta THEN SwapAt(p, i, j) ELSE p,
         i, j + 1)

RECURSIVE sort_pressed_keys(_, _)
sort_pressed_keys(p, i) ==
  IF i > Len(p) THEN p
  ELSE sort_pressed_keys(sort_pressed_inner(p, i, i + 1), i + 1)

\* The keys whose press the scan reverts: pressed_keys[1 ..] after the sort.
reverted_keys(sorted) == { sorted[i].key : i \in 2 .. Len(sorted) }

\* matrix_scan, for the travel distances d (a function of the key) that the
\* filtered ADC samples convert to in this scan.
matrix_scan(S, d) ==
  LET actuation_map == CURRENT_PROFILE(S).actuation_map
      stepped == [ k \in Keys |->
                     matrix_scan_key(S.key_matrix[k], actuation_map[k],
                                     k \in S.rapid_trigger_disabled, d[k]) ]
      sorted == sort_pressed_keys(
                  pressed_keys_from(S.key_matrix, stepped, actuation_map, 0), 1)
      reverted == reverted_keys(sorted)
  IN  [ S EXCEPT !.key_matrix =
          [ k \in Keys |->
              IF k \in reverted
              THEN [ stepped[k] EXCEPT !.is_pressed = FALSE, !.key_dir = "INACTIVE" ]
              ELSE stepped[k] ],
                 !.last_reverted = reverted ]

matrix_disable_rapid_trigger(S, key, disable) ==
  [ S EXCEPT !.rapid_trigger_disabled =
      IF disable THEN @ \cup { key } ELSE @ \ { key } ]

-----------------------------------------------------------------------------
(* History: the calls of one layout_task, in order. *)

\* A logged call: op names the function, key and keycode are its arguments,
\* flag and aux are what else the entry records (see each use).
Call(op, key, keycode, flag, aux) ==
  [ op |-> op, key |-> key, keycode |-> keycode, flag |-> flag, aux |-> aux ]

LogCall(S, e) == [ S EXCEPT !.log = Append(@, e) ]

\* last_reg[key] when no plain press of the key is outstanding
NoReg == 0 - 1

-----------------------------------------------------------------------------
(* hid and deferred_actions: collaborators that are not part of the sources *)

MAX_DEFERRED_ACTIONS == 16

hid_keycode_add(S, keycode) == [ S EXCEPT !.hid_keycodes = @ \cup { keycode } ]
hid_keycode_remove(S, keycode) == [ S EXCEPT !.hid_keycodes = @ \ { keycode } ]
hid_send_reports(S) ==
  LogCall([ S EXCEPT !.sent_report = S.hid_keycodes ],
          Call("send", 0, 0, FALSE, 0))

\* deferred_action_push: [S, ok]; ok is false when the queue is full.
deferred_action_push(S, action) ==
  IF Len(S.deferred_actions) >= MAX_DEFERRED_ACTIONS
  THEN [ S |-> S, ok |-> FALSE ]
  ELSE [ S |-> LogCall([ S EXCEPT !.deferred_actions = Append(@, action) ],
                       Call("defer", action.key, action.keycode, FALSE, 0)),
         ok |-> TRUE ]

-----------------------------------------------------------------------------
(* layout.c: layers and keycode lookup *)

layout_get_current_layer(S) ==
  IF S.layer_mask # {} THEN SetMax(S.layer_mask) ELSE S.default_layer

layout_layer_on(S, layer) == [ S EXCEPT !.layer_mask = @ \cup { layer } ]
layout_layer_off(S, layer) == [ S EXCEPT !.layer_mask = @ \ { layer } ]

layout_layer_lock(S) ==
  LET current_layer == layout_get_current_layer(S)
  IN  [ S EXCEPT !.default_layer =
          IF current_layer = S.default_layer THEN 0 ELSE current_layer ]

\* A layout_get_keycode that looks at every layer, active or not.
RECURSIVE layout_get_keycode_unmasked(_, _, _)
layout_get_keycode_unmasked(S, i, key) ==
  IF i < 0 THEN Keymap(S, S.default_layer, key)
  ELSE IF Keymap(S, i, key) # KC_TRANSPARENT THEN Keymap(S, i, key)
  ELSE layout_get_keycode_unmasked(S, i - 1, key)

\* The loop of layout_get_keycode, from layer i down to 0.
RECURSIVE layout_get_keycode(_, _, _)
layout_get_keycode(S, i, key) ==
  IF i < 0 THEN Keymap(S, S.default_layer, key)
  ELSE IF i \notin S.layer_mask THEN layout_get_keycode(S, i - 1, key)
  ELSE IF Keymap(S, i, key) # KC_TRANSPARENT THEN Keymap(S, i, key)
  ELSE layout_get_keycode(S, i - 1, key)

-----------------------------------------------------------------------------
(* layout.c: layout_unregister, and what layout_register needs *)

layout_unregister(S, key, keycode) ==
  LET S0 == LogCall(S, Call("unreg", key, keycode, FALSE, 0))
  IN  IF keycode = KC_NO THEN S0
      ELSE IF IsHidKeycode(keycode)
      THEN [ hid_keycode_remove(S0, keycode) EXCEPT !.should_send_reports = TRUE ]
      ELSE IF IsMomentaryLayer(keycode)
      THEN layout_layer_off(S0, MO_GET_LAYER(keycode))
      ELSE S0

\* The zeroed advanced_key_state_t (the union, one field per member used).
ZeroAkState ==
  [ nb_is_pressed |-> << FALSE, FALSE >>, nb_keycodes |-> << KC_NO, KC_NO >>,
    dks_is_pressed |-> << FALSE, FALSE, FALSE, FALSE >>,
    dks_is_bottomed_out |-> FALSE,
    th_since |-> 0, th_stage |-> "NONE", th_interrupted |-> FALSE,
    tg_since |-> 0, tg_stage |-> "NONE", tg_is_toggled |-> FALSE,
    macro_event_index |-> 0, macro_delay_until |-> 0, macro_is_playing |-> FALSE ]

\* The loop of advanced_key_clear, from slot i on.
RECURSIVE advanced_key_clear_from(_, _)
advanced_key_clear_from(S, i) ==
  IF i >= NUM_ADVANCED_KEYS THEN S
  ELSE LET ak == AdvancedKey(S, i)
           state == S.ak_states[i]
           S1 == CASE ak.type = "TAP_HOLD" ->
                        IF state.th_stage = "HOLD"
                        THEN layout_unregister(S, ak.key, ak.hold_keycode)
                        ELSE S
                   [] ak.type = "TOGGLE" ->
                        IF state.tg_stage # "NONE" \/ state.tg_is_toggled
                        THEN layout_unregister(S, ak.key, ak.keycode)
                        ELSE S
                   [] OTHER -> S
       IN  advanced_key_clear_from(S1, i + 1)

advanced_key_clear(S) ==
  [ advanced_key_clear_from(S, 0) EXCEPT
      !.ak_states = [ i \in AkSlots |-> ZeroAkState ] ]

advanced_key_combo_invalidate_cache(S) ==
  [ S EXCEPT !.combo_key_bitmap_layer = 255 ]

\* The loop of layout_load_advanced_keys, from slot i on.
RECURSIVE load_advanced_keys_from(_, _)
load_advanced_keys_from(S, i) ==
  IF i >= NUM_ADVANCED_KEYS THEN S
  ELSE LET ak == AdvancedKey(S, i)
       IN  IF ak.type = "NONE" \/ ak.type = "COMBO"
              \/ ak.layer >= NUM_LAYERS \/ ak.key >= NUM_KEYS
           THEN load_advanced_keys_from(S, i + 1)
           ELSE LET S1 == [ S EXCEPT !.advanced_key_indices[ak.layer][ak.key] = i + 1 ]
                    S2 == IF ak.type = "NULL_BIND" /\ ak.secondary_key < NUM_KEYS
                          THEN [ S1 EXCEPT
                                   !.advanced_key_indices[ak.layer][ak.secondary_key]
                                      = i + 1 ]
                          ELSE S1
                IN  load_advanced_keys_from(S2, i + 1)

layout_load_advanced_keys(S) ==
  advanced_key_combo_invalidate_cache(
    load_advanced_keys_from(
      [ S EXCEPT !.advanced_key_indices = [ l \in Layers |-> [ k \in Keys |-> 0 ] ] ],
      0))

\* EECONFIG_WRITE is taken to succeed.
layout_set_profile(S, profile) ==
  IF profile >= NUM_PROFILES THEN S
  ELSE LET S1 == advanced_key_clear(S)
           S2 == [ S1 EXCEPT !.current_profile = profile,
                             !.last_non_default_profile =
                                IF profile # 0 THEN profile ELSE @ ]
       IN  layout_load_advanced_keys(S2)

layout_register(S, key, keycode) ==
  LET S0 == LogCall(S, Call("reg", key, keycode, FALSE, 0))
  IN  IF keycode = KC_NO THEN S0
      ELSE IF IsHidKeycode(keycode)
      THEN [ hid_keycode_add(S0, keycode) EXCEPT !.should_send_reports = TRUE ]
      ELSE IF IsMomentaryLayer(keycode)
      THEN layout_layer_on(S0, MO_GET_LAYER(keycode))
      ELSE IF IsProfile(keycode) \/ keycode = SP_PROFILE_SWAP
              \/ keycode = SP_PROFILE_NEXT
      THEN layout_set_profile(S0,
             CASE IsProfile(keycode) -> PF_GET_PROFILE(keycode)
               [] keycode = SP_PROFILE_SWAP ->
                    IF S0.current_profile # 0 THEN 0
                    ELSE S0.last_non_default_profile
               [] keycode = SP_PROFILE_NEXT ->
                    (S0.current_profile + 1) % NUM_PROFILES)
      ELSE IF keycode = SP_KEY_LOCK
      THEN [ S0 EXCEPT !.key_disabled =
               IF key \in @ THEN @ \ { key } ELSE @ \cup { key } ]
      ELSE IF keycode = SP_LAYER_LOCK
      THEN layout_layer_lock(S0)
      ELSE S0

-----------------------------------------------------------------------------
(* advanced_keys.c: the per-type handlers.  An event is a record            *)
(* [type, key, keycode, ak_index]; type is one of "HOLD", "PRESS",         *)
(* "BOTTOM_OUT", "RELEASE_FROM_BOTTOM_OUT", "RELEASE".                     *)

AkEvent(type, key, keycode, ak_index) ==
  [ type |-> type, key |-> key, keycode |-> keycode, ak_index |-> ak_index ]

\* ak_event_type_t as the number the DKS bitmap is indexed with
EventTypeNumber(type) ==
  CASE type = "HOLD" -> 0
    [] type = "PRESS" -> 1
    [] type = "BOTTOM_OUT" -> 2
    [] type = "RELEASE_FROM_BOTTOM_OUT" -> 3
    [] type = "RELEASE" -> 4

DeferredAction(type, key, keycode) ==
  [ type |-> type, key |-> key, keycode |-> keycode ]

\* The last loop of advanced_key_null_bind: register or unregister the keys
\* whose resolved state (is_pressed, a pair) differs from the recorded one.
RECURSIVE null_bind_apply(_, _, _, _, _)
null_bind_apply(S, n, keys, is_pressed, i) ==
  IF i > 2 THEN S
  ELSE LET state == S.ak_states[n]
           S1 == IF is_pressed[i] /\ ~state.nb_is_pressed[i]
                 THEN [ layout_register(S, keys[i], state.nb_keycodes[i]) EXCEPT
                          !.ak_states[n].nb_is_pressed[i] = TRUE ]
                 ELSE IF ~is_pressed[i] /\ state.nb_is_pressed[i]
                 THEN [ layout_unregister(S, keys[i], state.nb_keycodes[i]) EXCEPT
                          !.ak_states[n].nb_is_pressed[i] = FALSE ]
                 ELSE S
       IN  null_bind_apply(S1, n, keys, is_pressed, i + 1)

\* The switch of advanced_key_null_bind: the event updates the key's entry.
null_bind_update(S, event) ==
  LET n == event.ak_index
      null_bind == AdvancedKey(S, n)
      keys == << null_bind.key, null_bind.secondary_key >>
      index == IF event.key = keys[1] THEN 1 ELSE 2
  IN  CASE event.type = "PRESS" ->
             [ S EXCEPT !.ak_states[n].nb_keycodes[index] = event.keycode ]
        [] event.type = "RELEASE" ->
             [ (IF S.ak_states[n].nb_is_pressed[index]
                THEN [ layout_unregister(S, keys[index],
                                         S.ak_states[n].nb_keycodes[index]) EXCEPT
                         !.ak_states[n].nb_is_pressed[index] = FALSE ]
                ELSE S)
               EXCEPT !.ak_states[n].nb_keycodes[index] = KC_NO ]
        [] OTHER -> S

\* A resolution that never registers both keys: the bottom-out point is not
\* looked at.
null_bind_resolve_single(S1, event) ==
  LET n == event.ak_index
      null_bind == AdvancedKey(S1, n)
      keys == << null_bind.key, null_bind.secondary_key >>
      index == IF event.key = keys[1] THEN 1 ELSE 2
      other == 3 - index
      state == S1.ak_states[n]
      held == << state.nb_keycodes[1] # KC_NO, state.nb_keycodes[2] # KC_NO >>
      dist(i) == S1.key_matrix[keys[i]].distance
      is_pressed ==
        IF held[1] /\ held[2]
        THEN IF null_bind.behavior = "DISTANCE"
             THEN [ i \in { 1, 2 } |->
                      IF i = index THEN dist(index) >= dist(other)
                      ELSE ~(dist(index) >= dist(other)) ]
             ELSE IF event.type = "PRESS"
             THEN LET mine == null_bind.behavior # "NEUTRAL"
                              /\ (\/ null_bind.behavior = "LAST"
                                  \/ (null_bind.behavior = "PRIMARY" /\ index = 1)
                                  \/ (null_bind.behavior = "SECONDARY" /\ index = 2))
                  IN  [ i \in { 1, 2 } |->
                          IF i = index THEN mine
                          ELSE null_bind.behavior # "NEUTRAL" /\ ~mine ]
             ELSE state.nb_is_pressed
        ELSE held
  IN  null_bind_apply(S1, n, keys, is_pressed, 1)

\* The rest of advanced_key_null_bind: which of the two keys is to be
\* registered, from the memory S1 the switch leaves.
null_bind_resolve(S1, event) ==
  LET n == event.ak_index
      null_bind == AdvancedKey(S1, n)
      keys == << null_bind.key, null_bind.secondary_key >>
      index == IF event.key = keys[1] THEN 1 ELSE 2
      other == 3 - index
      state == S1.ak_states[n]
      held == << state.nb_keycodes[1] # KC_NO, state.nb_keycodes[2] # KC_NO >>
      dist(i) == S1.key_matrix[keys[i]].distance
      is_pressed ==
        IF held[1] /\ held[2]
        THEN IF null_bind.bottom_out_point > 0
                /\ dist(1) >= null_bind.bottom_out_point
                /\ dist(2) >= null_bind.bottom_out_point
             THEN << TRUE, TRUE >>
             ELSE IF null_bind.behavior = "DISTANCE"
             THEN [ i \in { 1, 2 } |->
                      IF i = index THEN dist(index) >= dist(other)
                      ELSE ~(dist(index) >= dist(other)) ]
             ELSE IF event.type = "PRESS"
             THEN LET mine == null_bind.behavior # "NEUTRAL"
                              /\ (\/ null_bind.behavior = "LAST"
                                  \/ (null_bind.behavior = "PRIMARY" /\ index = 1)
                                  \/ (null_bind.behavior = "SECONDARY" /\ index = 2))
                  IN  [ i \in { 1, 2 } |->
                          IF i = index THEN mine
                          ELSE null_bind.behavior # "NEUTRAL" /\ ~mine ]
             ELSE state.nb_is_pressed
        ELSE held
  IN  null_bind_apply(S1, n, keys, is_pressed, 1)

\* An advanced_key_null_bind that does not resolve the pair again when one of
\* its keys is released.
advanced_key_null_bind_unresolved(S, event) ==
  IF event.type = "RELEASE" THEN null_bind_update(S, event)
  ELSE null_bind_resolve(null_bind_update(S, event), event)

advanced_key_null_bind(S, event) == null_bind_resolve(null_bind_update(S, event), event)

\* The action of one binding of a Dynamic Keystroke key, after the binding
\* was unregistered: a press or a tap is pushed to the deferred actions.
dynamic_keystroke_push(S1, event, i, keycode, action) ==
  LET pushed == deferred_action_push(S1,
                  DeferredAction(IF action = 1 THEN "PRESS" ELSE "TAP",
                                 event.key, keycode))
  IN  IF action = 1 \/ action = 3
      THEN [ pushed.S EXCEPT !.ak_states[event.ak_index].dks_is_pressed[i] =
               (pushed.ok /\ action = 1) ]
      ELSE S1

\* The loop of advanced_key_dynamic_keystroke over the four bindings.
RECURSIVE dynamic_keystroke_apply(_, _, _, _)
dynamic_keystroke_apply(S, event, event_type, i) ==
  IF i > 4 THEN S
  ELSE LET n == event.ak_index
           dks == AdvancedKey(S, n)
           keycode == dks.dks_keycodes[i]
           shift == (EventTypeNumber(event_type) - 1) * 2
           action == (dks.dks_bitmap[i] \div (2 ^ shift)) % 4
       IN  IF keycode = KC_NO \/ action = 0
           THEN dynamic_keystroke_apply(S, event, event_type, i + 1)
           ELSE dynamic_keystroke_apply(
                  dynamic_keystroke_push(
                    IF S.ak_states[n].dks_is_pressed[i]
                    THEN [ layout_unregister(S, event.key, keycode) EXCEPT
                             !.ak_states[n].dks_is_pressed[i] = FALSE ]
                    ELSE S,
                    event, i, keycode, action),
                  event, event_type, i + 1)

advanced_key_dynamic_keystroke(S, event) ==
  LET n == event.ak_index
      dks == AdvancedKey(S, n)
      state == S.ak_states[n]
      is_bottomed_out == S.key_matrix[event.key].distance >= dks.bottom_out_point
      event_type ==
        IF is_bottomed_out /\ ~state.dks_is_bottomed_out THEN "BOTTOM_OUT"
        ELSE IF event.type # "RELEASE" /\ ~is_bottomed_out /\ state.dks_is_bottomed_out
        THEN "RELEASE_FROM_BOTTOM_OUT"
        ELSE event.type
      S1 == [ S EXCEPT !.ak_states[n].dks_is_bottomed_out = is_bottomed_out ]
  IN  IF event_type = "HOLD" THEN S1
      ELSE dynamic_keystroke_apply(
             matrix_disable_rapid_trigger(S1, event.key, event_type # "RELEASE"),
             event, event_type, 1)

\* The tap of a Tap-Hold key on its release: the tap keycode is registered
\* if its deferred release was queued (pushed is what the push returned).
tap_hold_tap(pushed, key, tap_keycode) ==
  IF pushed.ok THEN layout_register(pushed.S, key, tap_keycode) ELSE pushed.S

\* An advanced_key_tap_hold that registers the tap keycode on release
\* without queuing its deferred release.
advanced_key_tap_hold_undeferred(S, event) ==
  LET n == event.ak_index
      tap_hold == AdvancedKey(S, n)
      state == S.ak_states[n]
  IN  CASE event.type = "PRESS" ->
             [ S EXCEPT !.ak_states[n].th_since = S.now,
                        !.ak_states[n].th_stage = "TAP",
                        !.ak_states[n].th_interrupted = FALSE ]
        [] event.type = "RELEASE" ->
             LET S1 ==
                   IF state.th_stage = "TAP"
                   THEN layout_register(S, event.key, tap_hold.tap_keycode)
                   ELSE IF state.th_stage = "HOLD"
                   THEN layout_unregister(S, event.key, tap_hold.hold_keycode)
                   ELSE S
             IN  [ S1 EXCEPT !.ak_states[n].th_stage = "NONE" ]
        [] OTHER -> S

advanced_key_tap_hold(S, event) ==
  LET n == event.ak_index
      tap_hold == AdvancedKey(S, n)
      state == S.ak_states[n]
  IN  CASE event.type = "PRESS" ->
             [ S EXCEPT !.ak_states[n].th_since = S.now,
                        !.ak_states[n].th_stage = "TAP",
                        !.ak_states[n].th_interrupted = FALSE ]
        [] event.type = "RELEASE" ->
             LET S1 ==
                   IF state.th_stage = "TAP"
                   THEN IF tap_hold.retro_tapping /\ ~state.th_interrupted
                           /\ Sub32(S.now, state.th_since) >= tap_hold.tapping_term
                        THEN tap_hold_tap(
                               deferred_action_push(S,
                                 DeferredAction("RELEASE", event.key,
                                                tap_hold.tap_keycode)),
                               event.key, tap_hold.tap_keycode)
                        ELSE tap_hold_tap(
                               deferred_action_push(S,
                                 DeferredAction("RELEASE", event.key,
                                                tap_hold.tap_keycode)),
                               event.key, tap_hold.tap_keycode)
                   ELSE IF state.th_stage = "HOLD"
                   THEN layout_unregister(S, event.key, tap_hold.hold_keycode)
                   ELSE S
             IN  [ S1 EXCEPT !.ak_states[n].th_stage = "NONE" ]
        [] OTHER -> S

\* A press of a Toggle key that leaves the stage at Toggle when it turns the
\* toggle off.
toggle_flip_stage_kept(S1, n) ==
  IF ~S1.ak_states[n].tg_is_toggled
  THEN [ S1 EXCEPT !.ak_states[n].tg_is_toggled = TRUE,
                   !.ak_states[n].tg_since = S1.now,
                   !.ak_states[n].tg_stage = "TOGGLE" ]
  ELSE [ S1 EXCEPT !.ak_states[n].tg_is_toggled = FALSE,
                   !.ak_states[n].tg_stage = "TOGGLE" ]

\* The press of a Toggle key after its keycode was registered: is_toggled
\* flips, and the tapping term starts when it became true.
toggle_flip(S1, n) ==
  IF ~S1.ak_states[n].tg_is_toggled
  THEN [ S1 EXCEPT !.ak_states[n].tg_is_toggled = TRUE,
                   !.ak_states[n].tg_since = S1.now,
                   !.ak_states[n].tg_stage = "TOGGLE" ]
  ELSE [ S1 EXCEPT !.ak_states[n].tg_is_toggled = FALSE,
                   !.ak_states[n].tg_stage = "NORMAL" ]

\* An advanced_key_toggle whose release unregisters the keycode whatever
\* is_toggled says.
advanced_key_toggle_momentary(S, event) ==
  LET n == event.ak_index
      toggle == AdvancedKey(S, n)
  IN  CASE event.type = "PRESS" ->
             toggle_flip(layout_register(S, event.key, toggle.keycode), n)
        [] event.type = "RELEASE" ->
             [ layout_unregister(S, event.key, toggle.keycode) EXCEPT
                 !.ak_states[n].tg_stage = "NONE" ]
        [] OTHER -> S

advanced_key_toggle(S, event) ==
  LET n == event.ak_index
      toggle == AdvancedKey(S, n)
  IN  CASE event.type = "PRESS" ->
             toggle_flip(layout_register(S, event.key, toggle.keycode), n)
        [] event.type = "RELEASE" ->
             LET S1 == IF ~S.ak_states[n].tg_is_toggled
                       THEN layout_unregister(S, event.key, toggle.keycode)
                       ELSE S
             IN  [ S1 EXCEPT !.ak_states[n].tg_stage = "NONE" ]
        [] OTHER -> S

advanced_key_process(S, event) ==
  IF event.ak_index >= NUM_ADVANCED_KEYS THEN S
  ELSE LET type == AdvancedKey(S, event.ak_index).type
       IN  CASE type = "NULL_BIND" -> advanced_key_null_bind(S, event)
             [] type = "DYNAMIC_KEYSTROKE" -> advanced_key_dynamic_keystroke(S, event)
             [] type = "TAP_HOLD" -> advanced_key_tap_hold(S, event)
             [] type = "TOGGLE" -> advanced_key_toggle(S, event)
             [] OTHER -> S

\* An advanced_key_tick that promotes a Tap-Hold key only once more than the
\* tapping term has elapsed.
RECURSIVE advanced_key_tick_from_late(_, _, _, _)
advanced_key_tick_from_late(S, has_non_tap_hold_press, has_non_tap_hold_release, i) ==
  IF i >= NUM_ADVANCED_KEYS THEN S
  ELSE LET ak == AdvancedKey(S, i)
           S1 == CASE ak.type = "TAP_HOLD" ->
                        LET Sa == IF has_non_tap_hold_press
                                  THEN [ S EXCEPT !.ak_states[i].th_interrupted = TRUE ]
                                  ELSE S
                        IN  IF Sa.ak_states[i].th_stage = "TAP"
                               /\ (\/ (has_non_tap_hold_press
                                       /\ ak.hold_on_other_key_press)
                                   \/ (has_non_tap_hold_release /\ ak.permissive_hold)
                                   \/ Sub32(Sa.now, Sa.ak_states[i].th_since)
                                        > ak.tapping_term)
                            THEN [ layout_register(Sa, ak.key, ak.hold_keycode) EXCEPT
                                     !.ak_states[i].th_stage = "HOLD" ]
                            ELSE Sa
                   [] ak.type = "TOGGLE" ->
                        IF S.ak_states[i].tg_stage = "TOGGLE"
                           /\ Sub32(S.now, S.ak_states[i].tg_since) >= ak.tapping_term
                        THEN [ S EXCEPT !.ak_states[i].tg_stage = "NORMAL",
                                        !.ak_states[i].tg_is_toggled = FALSE ]
                        ELSE S
                   [] OTHER -> S
       IN  advanced_key_tick_from_late(S1, has_non_tap_hold_press,
                                  has_non_tap_hold_release, i + 1)

\* The loop of advanced_key_tick, from slot i on.
RECURSIVE advanced_key_tick_from(_, _, _, _)
advanced_key_tick_from(S, has_non_tap_hold_press, has_non_tap_hold_release, i) ==
  IF i >= NUM_ADVANCED_KEYS THEN S
  ELSE LET ak == AdvancedKey(S, i)
           S1 == CASE ak.type = "TAP_HOLD" ->
                        LET Sa == IF has_non_tap_hold_press
                                  THEN [ S EXCEPT !.ak_states[i].th_interrupted = TRUE ]
                                  ELSE S
                        IN  IF Sa.ak_states[i].th_stage = "TAP"
                               /\ (\/ (has_non_tap_hold_press
                                       /\ ak.hold_on_other_key_press)
                                   \/ (has_non_tap_hold_release /\ ak.permissive_hold)
                                   \/ Sub32(Sa.now, Sa.ak_states[i].th_since)
                                        >= ak.tapping_term)
                            THEN [ layout_register(Sa, ak.key, ak.hold_keycode) EXCEPT
                                     !.ak_states[i].th_stage = "HOLD" ]
                            ELSE Sa
                   [] ak.type = "TOGGLE" ->
                        IF S.ak_states[i].tg_stage = "TOGGLE"
                           /\ Sub32(S.now, S.ak_states[i].tg_since) >= ak.tapping_term
                        THEN [ S EXCEPT !.ak_states[i].tg_stage = "NORMAL",
                                        !.ak_states[i].tg_is_toggled = FALSE ]
                        ELSE S
                   [] OTHER -> S
       IN  advanced_key_tick_from(S1, has_non_tap_hold_press,
                                  has_non_tap_hold_release, i + 1)

advanced_key_tick(S, has_non_tap_hold_press, has_non_tap_hold_release) ==
  advanced_key_tick_from(
    LogCall(S, Call("tick", 0, 0, has_non_tap_hold_press,
                    IF has_non_tap_hold_release THEN 1 ELSE 0)),
    has_non_tap_hold_press, has_non_tap_hold_release, 0)

\* advanced_key_has_undecided is declared in advanced_keys.h and defined in no
\* source file: true iff any Tap-Hold key is in the Tap stage.
advanced_key_has_undecided(S) ==
  \E i \in AkSlots :
    AdvancedKey(S, i).type = "TAP_HOLD" /\ S.ak_states[i].th_stage = "TAP"

-----------------------------------------------------------------------------
(* layout.c: layout_process_key *)

\* The keys whose press is held back: queued unconsumed in the combo queue or
\* buffered in pending_events.
WaitingKeys(S) ==
  { S.event_queue[i].key :
      i \in { j \in 1 .. Len(S.event_queue) :
                ~S.event_queue[j].consumed /\ S.event_queue[j].pressed } }
  \cup { S.pending_events[i].key : i \in 1 .. Len(S.pending_events) }

\* The key is bound to a Tap-Hold key on the current layer (is_hold_tap).
IsTapHoldKey(S, key) ==
  LET ak_idx == S.advanced_key_indices[layout_get_current_layer(S)][key]
  IN  ak_idx # 0 /\ AdvancedKey(S, ak_idx - 1).type = "TAP_HOLD"

\* The condition under which layout_task buffers a press instead of
\* processing it.
HoldsBack(S, key) ==
  /\ ~IsTapHoldKey(S, key)
  /\ advanced_key_has_undecided(S)
  /\ Len(S.pending_events) < MAX_PENDING_EVENTS

\* A result that reports every press of an advanced key as non-Tap-Hold.
process_key_pressed_result_any(S2, ak_index) == [ S |-> S2, r |-> TRUE ]

\* layout_process_key: [S, r], r the returned has_non_tap_hold_press.  The
\* "pk" entry records in aux whether a press of the key is still held back,
\* and in keycode (1 or 0) whether layout_task would buffer the press now.
\* (advanced_key_update_last_key_time is defined in no source file and
\* nothing in the sources reads what it stores.)
process_key_pressed_result(S2, ak_index) ==
  [ S |-> S2, r |-> AdvancedKey(S2, ak_index - 1).type # "TAP_HOLD" ]

\* A layout_process_key that looks the keycode of a release up in the keymap
\* of the current layer instead of reading active_keycodes.
process_key_body_relookup(S0, key, pressed, current_layer) ==
  IF pressed
  THEN LET keycode == layout_get_keycode(S0, current_layer, key)
           ak_index == S0.advanced_key_indices[current_layer][key]
       IN  IF ak_index # 0
           THEN process_key_pressed_result(
                  advanced_key_process(
                    [ S0 EXCEPT !.active_advanced_keys[key] = ak_index ],
                    AkEvent("PRESS", key, keycode, ak_index - 1)),
                  ak_index)
           ELSE [ S |-> layout_register(
                          [ S0 EXCEPT !.active_keycodes[key] = keycode,
                                      !.last_reg[key] = keycode ],
                          key, keycode),
                  r |-> keycode # KC_NO ]
  ELSE LET keycode == layout_get_keycode(S0, current_layer, key)
           ak_index == S0.active_advanced_keys[key]
       IN  IF ak_index # 0
           THEN [ S |-> advanced_key_process(
                          [ S0 EXCEPT !.active_advanced_keys[key] = 0 ],
                          AkEvent("RELEASE", key, keycode, ak_index - 1)),
                  r |-> FALSE ]
           ELSE [ S |-> layout_unregister(
                          LogCall([ S0 EXCEPT !.active_keycodes[key] = KC_NO,
                                              !.last_reg[key] = NoReg ],
                                  Call("plain_release", key, keycode, FALSE,
                                       S0.last_reg[key])),
                          key, keycode),
                  r |-> FALSE ]

\* The body of layout_process_key, S0 being the memory at its entry.
process_key_body(S0, key, pressed, current_layer) ==
  IF pressed
  THEN LET keycode == layout_get_keycode(S0, current_layer, key)
           ak_index == S0.advanced_key_indices[current_layer][key]
       IN  IF ak_index # 0
           THEN process_key_pressed_result(
                  advanced_key_process(
                    [ S0 EXCEPT !.active_advanced_keys[key] = ak_index ],
                    AkEvent("PRESS", key, keycode, ak_index - 1)),
                  ak_index)
           ELSE [ S |-> layout_register(
                          [ S0 EXCEPT !.active_keycodes[key] = keycode,
                                      !.last_reg[key] = keycode ],
                          key, keycode),
                  r |-> keycode # KC_NO ]
  ELSE LET keycode == S0.active_keycodes[key]
           ak_index == S0.active_advanced_keys[key]
       IN  IF ak_index # 0
           THEN [ S |-> advanced_key_process(
                          [ S0 EXCEPT !.active_advanced_keys[key] = 0 ],
                          AkEvent("RELEASE", key, keycode, ak_index - 1)),
                  r |-> FALSE ]
           ELSE [ S |-> layout_unregister(
                          LogCall([ S0 EXCEPT !.active_keycodes[key] = KC_NO,
                                              !.last_reg[key] = NoReg ],
                                  Call("plain_release", key, keycode, FALSE,
                                       S0.last_reg[key])),
                          key, keycode),
                  r |-> FALSE ]

layout_process_key(S, key, pressed) ==
  process_key_body(
    LogCall(S, Call("pk", key, IF pressed /\ HoldsBack(S, key) THEN 1 ELSE 0,
                    pressed, IF key \in WaitingKeys(S) THEN 1 ELSE 0)),
    key, pressed, layout_get_current_layer(S))

-----------------------------------------------------------------------------
(* advanced_keys.c: the combo detector *)

ComboEvent(key, pressed, time) ==
  [ key |-> key, pressed |-> pressed, time |-> time, consumed |-> FALSE ]

\* The trigger keys of a combo that are key indices (keys[k] < NUM_KEYS)
ComboSlots(ak) == { k \in 1 .. 4 : ak.keys[k] < NUM_KEYS }

combo_key_bitmap_rebuild(S, layer) ==
  IF S.combo_key_bitmap_layer = layer THEN S
  ELSE [ S EXCEPT
           !.combo_key_bitmap =
              UNION { { AdvancedKey(S, i).keys[k] : k \in ComboSlots(AdvancedKey(S, i)) } :
                      i \in { j \in AkSlots : AdvancedKey(S, j).type = "COMBO"
                                              /\ AdvancedKey(S, j).layer = layer } },
           !.combo_key_bitmap_layer = layer ]

is_key_in_any_combo(S, key) == key < NUM_KEYS /\ key \in S.combo_key_bitmap

\* The loop of flush_events: i events flushed so far.
\* has_activity: a key event that layout_process_key reports as a press of a
\* key that is no Tap-Hold key sets pending_activity.
mark_activity(done) ==
  IF done.r THEN [ done.S EXCEPT !.pending_activity = TRUE ] ELSE done.S

RECURSIVE flush_events_loop(_, _, _)
flush_events_loop(S, count_to_flush, i) ==
  IF ~(i < count_to_flush /\ Len(S.event_queue) > 0) THEN S
  ELSE LET ev == Head(S.event_queue)
       IN  flush_events_loop(
             [ (IF ~ev.consumed
                THEN mark_activity(layout_process_key(S, ev.key, ev.pressed))
                ELSE S)
               EXCEPT !.event_queue = Tail(@) ],
             count_to_flush, i + 1)

flush_events(S, count_to_flush) ==
  IF S.flush_in_progress THEN S
  ELSE [ flush_events_loop([ S EXCEPT !.flush_in_progress = TRUE ],
                           count_to_flush, 0)
           EXCEPT !.flush_in_progress = FALSE ]

\* The store of queue_push.  A push onto a queue that is still full after the
\* forced flush writes over the slot at the tail, which is then the slot of
\* the oldest event, and counts one more: the ring then reads the new event
\* first and last.
queue_push_store(S1, key, pressed, time) ==
  IF Len(S1.event_queue) >= COMBO_QUEUE_SIZE
  THEN [ S1 EXCEPT !.event_queue =
           << ComboEvent(key, pressed, time) >> \o Tail(@)
             \o << ComboEvent(key, pressed, time) >> ]
  ELSE [ S1 EXCEPT !.event_queue = Append(@, ComboEvent(key, pressed, time)) ]

\* A queue_push without the forced flush of a full queue.
queue_push_unflushed(S, key, pressed, time) ==
  queue_push_store(S, key, pressed, time)

queue_push(S, key, pressed, time) ==
  queue_push_store(
    IF Len(S.event_queue) >= COMBO_QUEUE_SIZE THEN flush_events(S, 1) ELSE S,
    key, pressed, time)

\* The first trigger slot of the combo that names the key, 0 if none does.
combo_slot_of(ak, key) ==
  IF \E k \in 1 .. 4 : ak.keys[k] = key
  THEN CHOOSE k \in 1 .. 4 : ak.keys[k] = key /\ \A j \in 1 .. (k - 1) : ak.keys[j] # key
  ELSE 0

\* The queue scan of check_combo_match from offset i on: the result is
\* [foreign, active_part, key_times].
RECURSIVE combo_scan(_, _, _, _)
combo_scan(q, ak, acc, i) ==
  IF i > Len(q) THEN acc
  ELSE LET ev == q[i]
           k == combo_slot_of(ak, ev.key)
       IN  IF ev.consumed \/ ~ev.pressed THEN combo_scan(q, ak, acc, i + 1)
           ELSE IF k = 0 THEN [ acc EXCEPT !.foreign = TRUE ]
           ELSE IF ~acc.active_part[k]
           THEN combo_scan(q, ak,
                           [ acc EXCEPT !.active_part[k] = TRUE,
                                        !.key_times[k] = ev.time ], i + 1)
           ELSE combo_scan(q, ak, acc, i + 1)

\* min and max of the key times of the active parts, by the plain unsigned
\* comparisons of the code, slot by slot
RECURSIVE combo_min_time(_, _, _, _)
combo_min_time(acc, k, first, min_t) ==
  IF k > 4 THEN min_t
  ELSE IF ~acc.active_part[k] THEN combo_min_time(acc, k + 1, first, min_t)
  ELSE IF first THEN combo_min_time(acc, k + 1, FALSE, acc.key_times[k])
  ELSE combo_min_time(acc, k + 1, FALSE,
                      IF acc.key_times[k] < min_t THEN acc.key_times[k] ELSE min_t)

RECURSIVE combo_max_time(_, _, _, _)
combo_max_time(acc, k, first, max_t) ==
  IF k > 4 THEN max_t
  ELSE IF ~acc.active_part[k] THEN combo_max_time(acc, k + 1, first, max_t)
  ELSE IF first THEN combo_max_time(acc, k + 1, FALSE, acc.key_times[k])
  ELSE combo_max_time(acc, k + 1, FALSE,
                      IF acc.key_times[k] > max_t THEN acc.key_times[k] ELSE max_t)

combo_term(ak) == IF ak.term > 0 THEN ak.term ELSE DEFAULT_COMBO_TERM

\* The verdict of check_combo_match from what the queue scan found (acc):
\* 0 = no match, 1 = candidate, 2 = full match
combo_status(acc, ak, current_time) ==
  LET keys_required ==
        Cardinality({ k \in 1 .. 4 : ak.keys[k] # COMBO_KEY_NONE /\ ak.keys[k] < NUM_KEYS })
      keys_found == Cardinality({ k \in ComboSlots(ak) : acc.active_part[k] })
      any_active == \E k \in 1 .. 4 : acc.active_part[k]
  IN  IF keys_required = 0 THEN 0
      ELSE IF acc.foreign THEN 0
      ELSE IF keys_found = keys_required
      THEN IF Sub32(combo_max_time(acc, 1, TRUE, 0), combo_min_time(acc, 1, TRUE, 0))
                <= combo_term(ak)
           THEN 2 ELSE 0
      ELSE IF keys_found > 0 /\ any_active
              /\ Sub32(current_time, combo_min_time(acc, 1, TRUE, 0)) <= combo_term(ak)
      THEN 1
      ELSE 0

check_combo_match(S, ak, current_time) ==
  combo_status(
    combo_scan(S.event_queue, ak,
               [ foreign |-> FALSE,
                 active_part |-> << FALSE, FALSE, FALSE, FALSE >>,
                 key_times |-> << 0, 0, 0, 0 >> ], 1),
    ak, current_time)

\* An iteration that lets a later full match of equal length replace the best
\* match so far.
combo_account_last(acc, ak, i, status) ==
  LET len == Cardinality(ComboSlots(ak))
  IN  IF status = 2
      THEN IF len >= acc.best_match_len
           THEN [ acc EXCEPT !.best_match_idx = i, !.best_match_len = len ]
           ELSE acc
      ELSE IF status = 1
      THEN [ acc EXCEPT !.pending_candidates = TRUE,
                        !.max_pending_term =
                           IF combo_term(ak) > @ THEN combo_term(ak) ELSE @ ]
      ELSE acc

\* One iteration of the scan of process_combo_logic: combo i, whose
\* check_combo_match returned status, is accounted for in acc, which is
\* [best_match_idx, best_match_len, pending_candidates, max_pending_term].
combo_account(acc, ak, i, status) ==
  LET len == Cardinality(ComboSlots(ak))
  IN  IF status = 2
      THEN IF len > acc.best_match_len
           THEN [ acc EXCEPT !.best_match_idx = i, !.best_match_len = len ]
           ELSE IF len = acc.best_match_len
                   /\ (acc.best_match_idx = 0 - 1 \/ i < acc.best_match_idx)
           THEN [ acc EXCEPT !.best_match_idx = i, !.best_match_len = len ]
           ELSE acc
      ELSE IF status = 1
      THEN [ acc EXCEPT !.pending_candidates = TRUE,
                        !.max_pending_term =
                           IF combo_term(ak) > @ THEN combo_term(ak) ELSE @ ]
      ELSE acc

\* The scan of process_combo_logic over the combos of the layer, from slot i on.
RECURSIVE combo_select(_, _, _, _, _)
combo_select(S, current_layer, current_time, acc, i) ==
  IF i >= NUM_ADVANCED_KEYS THEN acc
  ELSE LET ak == AdvancedKey(S, i)
       IN  combo_select(S, current_layer, current_time,
             IF ak.type # "COMBO" \/ ak.layer # current_layer THEN acc
             ELSE combo_account(acc, ak, i, check_combo_match(S, ak, current_time)),
             i + 1)

flush_all_events(S) == flush_events(S, Len(S.event_queue))

\* An execute_match that registers the output and flushes the queue without
\* marking the events of the combo's keys consumed.
combo_execute_match_unmarked(S, match_ak) ==
  flush_all_events(
    [ deferred_action_push(
        layout_register(
          LogCall(S, Call("combo", 255, match_ak.output_keycode, FALSE, 0)),
          255, match_ak.output_keycode),
        DeferredAction("RELEASE", 255, match_ak.output_keycode)).S
      EXCEPT !.pending_activity = TRUE ])

\* execute_match: mark the queued events of the combo's keys consumed, register
\* the output on key 255, queue its deferred release and flush the queue.
combo_execute_match(S, match_ak) ==
  flush_all_events(
    [ deferred_action_push(
        layout_register(
          LogCall([ S EXCEPT !.event_queue =
                      [ q \in 1 .. Len(S.event_queue) |->
                          IF ~S.event_queue[q].consumed
                             /\ combo_slot_of(match_ak, S.event_queue[q].key) # 0
                          THEN [ S.event_queue[q] EXCEPT !.consumed = TRUE ]
                          ELSE S.event_queue[q] ] ],
                  Call("combo", 255, match_ak.output_keycode, FALSE, 0)),
          255, match_ak.output_keycode),
        DeferredAction("RELEASE", 255, match_ak.output_keycode)).S
      EXCEPT !.pending_activity = TRUE ])

\* The decision of process_combo_logic from what the scan selected (sel).
process_combo_decide(S1, sel, current_time) ==
  LET head_timed_out ==
        Len(S1.event_queue) > 0
        /\ Sub32(current_time, Head(S1.event_queue).time) > sel.max_pending_term
  IN  IF sel.best_match_idx # 0 - 1
      THEN IF sel.pending_candidates /\ ~head_timed_out THEN S1
           ELSE combo_execute_match(S1, AdvancedKey(S1, sel.best_match_idx))
      ELSE IF sel.pending_candidates /\ ~head_timed_out THEN S1
      ELSE flush_events(S1, IF sel.pending_candidates THEN 1
                            ELSE Len(S1.event_queue))

\* process_combo_logic once the bitmap of the layer is rebuilt (S1)
process_combo_scan(S1, current_layer, current_time) ==
  process_combo_decide(
    S1,
    combo_select(S1, current_layer, current_time,
                 [ best_match_idx |-> 0 - 1, best_match_len |-> 0,
                   pending_candidates |-> FALSE,
                   max_pending_term |-> DEFAULT_COMBO_TERM ], 0),
    current_time)

process_combo_logic(S, current_time) ==
  process_combo_scan(combo_key_bitmap_rebuild(S, layout_get_current_layer(S)),
                     layout_get_current_layer(S), current_time)

\* The end of advanced_key_combo_process for a key of a combo: S2 is the
\* memory after the release was processed or the press was queued.
combo_process_detect(S2, pressed, time) ==
  IF pressed \/ Len(S2.event_queue) > 0 THEN process_combo_logic(S2, time) ELSE S2

\* advanced_key_combo_process once the bitmap of the layer is rebuilt (S1)
combo_process_body(S1, key, pressed, time) ==
  IF ~is_key_in_any_combo(S1, key)
  THEN [ S |-> IF pressed /\ Len(S1.event_queue) > 0
               THEN flush_all_events(S1) ELSE S1,
         r |-> FALSE ]
  ELSE [ S |-> combo_process_detect(
                 IF ~pressed THEN mark_activity(layout_process_key(S1, key, FALSE))
                 ELSE queue_push(S1, key, pressed, time),
                 pressed, time),
         r |-> TRUE ]

\* advanced_key_combo_process: [S, r], r true when the event is consumed
advanced_key_combo_process(S, key, pressed, time) ==
  combo_process_body(combo_key_bitmap_rebuild(S, layout_get_current_layer(S)),
                     key, pressed, time)

combo_task_result(S2) == [ S |-> S2, r |-> S2.pending_activity ]

\* An advanced_key_combo_task that leaves the queue to the next key event.
advanced_key_combo_task_idle(S) ==
  combo_task_result([ S EXCEPT !.pending_activity = FALSE ])

\* advanced_key_combo_task: [S, r]
advanced_key_combo_task(S) ==
  combo_task_result(
    IF Len(S.event_queue) > 0
    THEN process_combo_logic([ S EXCEPT !.pending_activity = FALSE ], S.now)
    ELSE [ S EXCEPT !.pending_activity = FALSE ])

-----------------------------------------------------------------------------
(* deferred_actions: not part of the sources.  deferred_action_process     *)
(* runs the actions queued before the call, oldest first; a TAP registers  *)
(* and queues its release for the next call.                               *)

RECURSIVE deferred_action_run(_, _, _)
deferred_action_run(S, actions, i) ==
  IF i > Len(actions) THEN S
  ELSE LET a == actions[i]
           S1 == CASE a.type = "PRESS" -> layout_register(S, a.key, a.keycode)
                   [] a.type = "RELEASE" -> layout_unregister(S, a.key, a.keycode)
                   [] a.type = "TAP" ->
                        deferred_action_push(
                          layout_register(S, a.key, a.keycode),
                          DeferredAction("RELEASE", a.key, a.keycode)).S
                   [] OTHER -> S
       IN  deferred_action_run(S1, actions, i + 1)

deferred_action_process(S) ==
  deferred_action_run(
    LogCall([ S EXCEPT !.deferred_actions = << >> ],
            Call("deferred_action_process", 0, 0, FALSE, 0)),
    S.deferred_actions, 1)

-----------------------------------------------------------------------------
(* layout.c: layout_task.  The XInput branch is left out: the model runs   *)
(* with eeconfig->options.xinput_enabled = false.                          *)

KeyEvent(key, pressed, event_time) ==
  [ key |-> key, pressed |-> pressed, event_time |-> event_time ]

\* First pass, from key i on: acc is [S, events].
RECURSIVE layout_collect(_, _, _)
layout_collect(acc, current_layer, i) ==
  IF i >= NUM_KEYS THEN acc
  ELSE LET S == acc.S
           k == S.key_matrix[i]
           last_key_press == i \in S.key_press_states
           set_state == [ S EXCEPT !.key_press_states =
                            IF k.is_pressed THEN @ \cup { i } ELSE @ \ { i } ]
           acc1 ==
             IF current_layer = 0 /\ i \in S.key_disabled
             THEN [ acc EXCEPT !.S = set_state ]
             ELSE IF k.is_pressed /\ ~last_key_press
             THEN [ acc EXCEPT !.events = Append(@, KeyEvent(i, TRUE, k.event_time)) ]
             ELSE IF ~k.is_pressed /\ last_key_press
             THEN [ acc EXCEPT !.events = Append(@, KeyEvent(i, FALSE, k.event_time)) ]
             ELSE IF k.is_pressed /\ S.active_advanced_keys[i] # 0
             THEN [ acc EXCEPT !.S =
                      advanced_key_process(S,
                        AkEvent("HOLD", i, S.active_keycodes[i],
                                S.active_advanced_keys[i] - 1)) ]
             ELSE acc
       IN  layout_collect(acc1, current_layer, i + 1)

\* The insertion sort of the events by event_time: insert tmp into the sorted
\* prefix, moving it before the events with a greater event_time.
RECURSIVE sort_insert(_, _)
sort_insert(sorted, tmp) ==
  IF Len(sorted) > 0 /\ sorted[Len(sorted)].event_time > tmp.event_time
  THEN Append(sort_insert(SubSeq(sorted, 1, Len(sorted) - 1), tmp),
              sorted[Len(sorted)])
  ELSE Append(sorted, tmp)

RECURSIVE sort_events(_, _)
sort_events(events, i) ==
  IF i < 1 THEN << >>
  ELSE sort_insert(sort_events(events, i - 1), events[i])

\* update_event_state: key_press_states follows the key matrix.
update_event_state(acc1, key) ==
  [ acc1 EXCEPT !.S.key_press_states =
      IF acc1.S.key_matrix[key].is_pressed THEN @ \cup { key } ELSE @ \ { key } ]

\* The event went through layout_process_key (done is what it returned).
event_account(acc, ev, done) ==
  IF ev.pressed
  THEN [ acc EXCEPT !.S = done.S, !.has_non_tap_hold_press = @ \/ done.r ]
  ELSE [ acc EXCEPT !.S = done.S, !.has_non_tap_hold_release = @ \/ done.r ]

\* One iteration of the event loop after advanced_key_combo_process returned
\* combo.
event_after_combo(acc, ev, combo) ==
  LET Sc == combo.S
  IN  IF combo.r THEN [ acc EXCEPT !.S = Sc ]
      ELSE IF ev.pressed /\ HoldsBack(Sc, ev.key)
      THEN [ acc EXCEPT !.S =
               [ Sc EXCEPT !.pending_events =
                   Append(@, [ key |-> ev.key, pressed |-> TRUE ]) ] ]
      ELSE event_account(acc, ev, layout_process_key(Sc, ev.key, ev.pressed))

\* One iteration of the event loop: acc is [S, has_non_tap_hold_press,
\* has_non_tap_hold_release].
layout_process_event(acc, ev) ==
  update_event_state(
    event_after_combo(acc, ev,
      advanced_key_combo_process(acc.S, ev.key, ev.pressed, ev.event_time)),
    ev.key)

RECURSIVE layout_process_events(_, _, _)
layout_process_events(acc, events, i) ==
  IF i > Len(events) THEN acc
  ELSE layout_process_events(layout_process_event(acc, events[i]), events, i + 1)

\* A replay of pending_events that stops one event early.
RECURSIVE layout_flush_pending_short(_, _)
layout_flush_pending_short(S, i) ==
  IF i >= Len(S.pending_events) THEN [ S EXCEPT !.pending_events = << >> ]
  ELSE layout_flush_pending_short(
         layout_process_key(S, S.pending_events[i].key,
                            S.pending_events[i].pressed).S, i + 1)

\* The replay of pending_events after the tick.
RECURSIVE layout_flush_pending(_, _)
layout_flush_pending(S, i) ==
  IF i > Len(S.pending_events) THEN [ S EXCEPT !.pending_events = << >> ]
  ELSE layout_flush_pending(
         layout_process_key(S, S.pending_events[i].key,
                            S.pending_events[i].pressed).S, i + 1)

\* The event loop of layout_task over what the first pass collected
task_events(collected) ==
  layout_process_events(
    [ S |-> collected.S, has_non_tap_hold_press |-> FALSE,
      has_non_tap_hold_release |-> FALSE ],
    sort_events(collected.events, Len(collected.events)), 1)

\* A tick that is only made for a non-Tap-Hold press, not for the timer.
task_tick_on_press_only(combo, has_non_tap_hold_press, has_non_tap_hold_release) ==
  IF has_non_tap_hold_press \/ combo.r
  THEN [ advanced_key_tick(combo.S, has_non_tap_hold_press \/ combo.r,
                           has_non_tap_hold_release)
           EXCEPT !.last_ak_tick = combo.S.now ]
  ELSE combo.S

\* The tick of layout_task; combo is what advanced_key_combo_task returned.
task_tick(combo, has_non_tap_hold_press, has_non_tap_hold_release) ==
  IF has_non_tap_hold_press \/ combo.r
     \/ Sub32(combo.S.now, combo.S.last_ak_tick) > 0
  THEN [ advanced_key_tick(combo.S, has_non_tap_hold_press \/ combo.r,
                           has_non_tap_hold_release)
           EXCEPT !.last_ak_tick = combo.S.now ]
  ELSE combo.S

task_combo(processed) ==
  task_tick(advanced_key_combo_task(processed.S),
            processed.has_non_tap_hold_press, processed.has_non_tap_hold_release)

\* After the tick: the pending events are replayed once no Tap-Hold key is
\* undecided.
task_flush(S1) ==
  IF Len(S1.pending_events) > 0 /\ ~advanced_key_has_undecided(S1)
  THEN layout_flush_pending(S1, 1)
  ELSE S1

task_send(S2) ==
  IF S2.should_send_reports
  THEN [ hid_send_reports(S2) EXCEPT !.should_send_reports = FALSE ]
  ELSE S2

\* A layout_task that runs the deferred actions before it sends the report.
layout_task_deferred_first(S) ==
  task_send(
    deferred_action_process(
      task_flush(
        task_combo(
          task_events(
            layout_collect([ S |-> S, events |-> << >> ],
                           layout_get_current_layer(S), 0))))))

layout_task(S) ==
  deferred_action_process(
    task_send(
      task_flush(
        task_combo(
          task_events(
            layout_collect([ S |-> S, events |-> << >> ],
                           layout_get_current_layer(S), 0))))))

-----------------------------------------------------------------------------
(* The state machine *)

Memory ==
  [ now |-> now,
    pc |-> pc,
    rounds |-> rounds,
    profiles |-> profiles,
    config |-> config,
    key_matrix |-> key_matrix,
    rapid_trigger_disabled |-> rapid_trigger_disabled,
    current_profile |-> current_profile,
    last_non_default_profile |-> last_non_default_profile,
    layer_mask |-> layer_mask,
    default_layer |-> default_layer,
    should_send_reports |-> should_send_reports,
    key_disabled |-> key_disabled,
    key_press_states |-> key_press_states,
    active_keycodes |-> active_keycodes,
    advanced_key_indices |-> advanced_key_indices,
    active_advanced_keys |-> active_advanced_keys,
    pending_events |-> pending_events,
    last_ak_tick |-> last_ak_tick,
    ak_states |-> ak_states,
    event_queue |-> event_queue,
    pending_activity |-> pending_activity,
    combo_key_bitmap |-> combo_key_bitmap,
    combo_key_bitmap_layer |-> combo_key_bitmap_layer,
    flush_in_progress |-> flush_in_progress,
    hid_keycodes |-> hid_keycodes,
    sent_report |-> sent_report,
    deferred_actions |-> deferred_actions,
    log |-> log,
    last_reg |-> last_reg,
    th_alone |-> th_alone,
    last_press |-> last_press,
    readings |-> readings, last_reverted |-> last_reverted ]

Commit(S) ==
  /\ now' = S.now
  /\ pc' = S.pc
  /\ rounds' = S.rounds
  /\ profiles' = S.profiles
  /\ config' = S.config
  /\ key_matrix' = S.key_matrix
  /\ rapid_trigger_disabled' = S.rapid_trigger_disabled
  /\ current_profile' = S.current_profile
  /\ last_non_default_profile' = S.last_non_default_profile
  /\ layer_mask' = S.layer_mask
  /\ default_layer' = S.default_layer
  /\ should_send_reports' = S.should_send_reports
  /\ key_disabled' = S.key_disabled
  /\ key_press_states' = S.key_press_states
  /\ active_keycodes' = S.active_keycodes
  /\ advanced_key_indices' = S.advanced_key_indices
  /\ active_advanced_keys' = S.active_advanced_keys
  /\ pending_events' = S.pending_events
  /\ last_ak_tick' = S.last_ak_tick
  /\ ak_states' = S.ak_states
  /\ event_queue' = S.event_queue
  /\ pending_activity' = S.pending_activity
  /\ combo_key_bitmap' = S.combo_key_bitmap
  /\ combo_key_bitmap_layer' = S.combo_key_bitmap_layer
  /\ flush_in_progress' = S.flush_in_progress
  /\ hid_keycodes' = S.hid_keycodes
  /\ sent_report' = S.sent_report
  /\ deferred_actions' = S.deferred_actions
  /\ log' = S.log
  /\ last_reg' = S.last_reg
  /\ th_alone' = S.th_alone
  /\ last_press' = S.last_press
  /\ readings' = S.readings
  /\ last_reverted' = S.last_reverted

StartsAs(S) ==
  /\ now = S.now
  /\ pc = S.pc
  /\ rounds = S.rounds
  /\ profiles = S.profiles
  /\ config = S.config
  /\ key_matrix = S.key_matrix
  /\ rapid_trigger_disabled = S.rapid_trigger_disabled
  /\ current_profile = S.current_profile
  /\ last_non_default_profile = S.last_non_default_profile
  /\ layer_mask = S.layer_mask
  /\ default_layer = S.default_layer
  /\ should_send_reports = S.should_send_reports
  /\ key_disabled = S.key_disabled
  /\ key_press_states = S.key_press_states
  /\ active_keycodes = S.active_keycodes
  /\ advanced_key_indices = S.advanced_key_indices
  /\ active_advanced_keys = S.active_advanced_keys
  /\ pending_events = S.pending_events
  /\ last_ak_tick = S.last_ak_tick
  /\ ak_states = S.ak_states
  /\ event_queue = S.event_queue
  /\ pending_activity = S.pending_activity
  /\ combo_key_bitmap = S.combo_key_bitmap
  /\ combo_key_bitmap_layer = S.combo_key_bitmap_layer
  /\ flush_in_progress = S.flush_in_progress
  /\ hid_keycodes = S.hid_keycodes
  /\ sent_report = S.sent_report
  /\ deferred_actions = S.deferred_actions
  /\ log = S.log
  /\ last_reg = S.last_reg
  /\ th_alone = S.th_alone
  /\ last_press = S.last_press
  /\ readings = S.readings
  /\ last_reverted = S.last_reverted

\* The memory before layout_init: statics are zero, the timer starts at 0.
ZeroMemory(cfg) ==
  [ now |-> 0, pc |-> "scan", rounds |-> 0,
    profiles |-> Profiles(cfg), config |-> cfg,
    key_matrix |-> [ k \in Keys |->
                       [ distance |-> 0, extremum |-> 0, key_dir |-> "INACTIVE",
                         is_pressed |-> FALSE, event_time |-> 0 ] ],
    rapid_trigger_disabled |-> {},
    current_profile |-> 0, last_non_default_profile |-> 0,
    layer_mask |-> {}, default_layer |-> 0, should_send_reports |-> FALSE,
    key_disabled |-> {}, key_press_states |-> {},
    active_keycodes |-> [ k \in Keys |-> KC_NO ],
    advanced_key_indices |-> [ l \in Layers |-> [ k \in Keys |-> 0 ] ],
    active_advanced_keys |-> [ k \in Keys |-> 0 ],
    pending_events |-> << >>, last_ak_tick |-> 0,
    ak_states |-> [ i \in AkSlots |-> ZeroAkState ],
    event_queue |-> << >>, pending_activity |-> FALSE,
    combo_key_bitmap |-> {}, combo_key_bitmap_layer |-> 255,
    flush_in_progress |-> FALSE,
    hid_keycodes |-> {}, sent_report |-> {}, deferred_actions |-> << >>,
    log |-> << >>, last_reg |-> [ k \in Keys |-> NoReg ], th_alone |-> FALSE,
    last_press |-> [ key |-> COMBO_KEY_NONE, time |-> 0, fresh |-> FALSE ],
    readings |-> << >>, last_reverted |-> {} ]

\* layout_init
layout_init(S) == layout_load_advanced_keys(S)

InitWith(cfgs) == \E cfg \in cfgs : StartsAs(layout_init(ZeroMemory(cfg)))

\* The millisecond timer advances (between two rounds of the main loop).
TimerTick ==
  /\ pc = "scan"
  /\ now < MaxTime
  /\ Commit([ Memory EXCEPT !.now = (now + 1) % TimerModulus ])

\* The main loop calls matrix_scan: a scan reads any travel distances with at
\* most MaxDown keys down.
MatrixScan ==
  /\ pc = "scan"
  /\ rounds < MaxRounds
  /\ \E d \in { e \in [ Keys -> DistLevels(config) ] :
                   Cardinality({ k \in Keys : e[k] > 0 }) <= MaxDown } :
       Commit([ matrix_scan(Memory, d) EXCEPT !.pc = "task", !.rounds = @ + 1 ])

\* The keys bound to a Tap-Hold key on the current layer
TapHoldKeys(S) == { k \in Keys : IsTapHoldKey(S, k) }

\* The keys with an edge that the coming layout_task will see
EdgeKeys(S) ==
  { k \in Keys : S.key_matrix[k].is_pressed # (k \in S.key_press_states) }

\* th_alone after a layout_task that starts in S
NextThAlone(S) ==
  IF EdgeKeys(S) \ TapHoldKeys(S) # {} THEN FALSE
  ELSE IF \E k \in EdgeKeys(S) \cap TapHoldKeys(S) : S.key_matrix[k].is_pressed
  THEN TRUE
  ELSE S.th_alone

\* last_press after a layout_task that starts in S: the key whose press edge
\* the task sees (matrix_scan leaves at most one), the time of the task, and
\* whether the press came with no other key down and the combo queue empty
NextLastPress(S) ==
  LET pressed == { k \in EdgeKeys(S) : S.key_matrix[k].is_pressed }
  IN  IF pressed = {} THEN S.last_press
      ELSE [ key |-> CHOOSE k \in pressed : \A j \in pressed : k <= j,
             time |-> S.now,
             fresh |-> /\ S.event_queue = << >>
                       /\ \A j \in Keys \ pressed :
                            ~S.key_matrix[j].is_pressed /\ j \notin S.key_press_states ]

\* ... and then layout_task.
LayoutTask ==
  /\ pc = "task"
  /\ Commit([ layout_task([ Memory EXCEPT !.log = << >> ]) EXCEPT
                !.pc = "scan", !.th_alone = NextThAlone(Memory),
                !.last_press = NextLastPress(Memory) ])

Next == TimerTick \/ MatrixScan \/ LayoutTask

\* The main loop followed for MaxBurst rounds, any set of the keys 0 to 2
\* down.
BurstScan ==
  /\ pc = "scan"
  /\ rounds < MaxBurst
  /\ \E d \in { e \in [ Keys -> DistLevels(config) ] : e[3] = 0 } :
       Commit([ matrix_scan(Memory, d) EXCEPT !.pc = "task", !.rounds = @ + 1 ])

\* The main loop while up to one key more than MaxDown is down: keys 0 and 1
\* are read at the same distance, and the trigger keys of the combo are never
\* read deeper than the actuation level.
CrowdScan ==
  /\ pc = "scan"
  /\ rounds < MaxRounds
  /\ \E d \in { e \in [ Keys -> DistLevels(config) ] :
                   /\ Cardinality({ k \in Keys : e[k] > 0 }) <= MaxDown + 1
                   /\ e[0] = e[1]
                   /\ e[2] <= DistDown /\ e[3] <= DistDown } :
       Commit([ matrix_scan(Memory, d) EXCEPT !.pc = "task", !.rounds = @ + 1 ])

\* The main loop followed for MaxSeries rounds while one trigger key of the
\* combo is pressed and released again and again.
SeriesScan ==
  /\ pc = "scan"
  /\ rounds < MaxSeries
  /\ \E d \in { e \in [ Keys -> DistLevels(config) ] :
                   \A k \in Keys \ { 1 } : e[k] = 0 } :
       Commit([ matrix_scan(Memory, d) EXCEPT !.pc = "task", !.rounds = @ + 1 ])

\* The burst is faster than the timer: the timer stands still until the
\* pending events buffer is full, and then runs up to the tapping term.
BurstTick ==
  /\ Len(pending_events) = MAX_PENDING_EVENTS
  /\ now < TappingTerm
  /\ TimerTick

\* readings after a scan that read d and left memory S2: the scan is appended
\* while key 0 follows Script with the other keys at rest; a scan that reads
\* the first distance of Script starts over, any other scan clears it.
record_reading(readings0, S2, d) ==
  IF \E k \in Keys \ { 0 } : d[k] # 0 THEN << >>
  ELSE IF Len(readings0) < Len(Script) /\ d[0] = Script[Len(readings0) + 1]
  THEN Append(readings0, [ distance |-> d[0],
                           is_pressed |-> S2.key_matrix[0].is_pressed ])
  ELSE IF d[0] = Script[1]
  THEN << [ distance |-> d[0], is_pressed |-> S2.key_matrix[0].is_pressed ] >>
  ELSE << >>

\* matrix_scan alone, scan after scan.  With plain keycodes and no advanced
\* keys, layout_task writes nothing that matrix_scan reads (key_matrix, the
\* current profile, rapid_trigger_disabled), so it is left out here.
RapidTriggerScan ==
  /\ pc = "scan"
  /\ \E d \in { [ k \in Keys |-> t[k + 1] ] :
                   t \in RtLevels(0) \X RtLevels(1) \X RtLevels(2) \X RtLevels(3) } :
       Commit([ matrix_scan(Memory, d) EXCEPT
                  !.readings = record_reading(readings, matrix_scan(Memory, d), d) ])

\* The default Tap-Hold configuration
Init == InitWith({ "th" })

Spec == Init /\ [][Next]_vars

\* The Tap-Hold key with hold_on_other_key_press
SpecHoldOnOtherKeyPress == InitWith({ "th_hoop" }) /\ [][Next]_vars

\* The Tap-Hold key with permissive_hold
SpecPermissiveHold == InitWith({ "th_permissive" }) /\ [][Next]_vars

\* The Tap-Hold key with retro_tapping
SpecRetroTapping == InitWith({ "th_retro" }) /\ [][Next]_vars

\* The profile with a Null Bind pair and a Toggle key
SpecNullBind == InitWith({ "nb" }) /\ [][Next]_vars

\* The profile with a Null Bind pair of behavior Last and a Toggle key
SpecNullBindLast == InitWith({ "nb_last" }) /\ [][Next]_vars

\* A burst of presses of plain keys while the Tap-Hold key is undecided
SpecPendingBurst ==
  InitWith({ "th_plain" }) /\ [][BurstTick \/ BurstScan \/ LayoutTask]_vars

\* One trigger key of the combo pressed and released again and again
SpecComboSeries == Init /\ [][TimerTick \/ SeriesScan \/ LayoutTask]_vars

\* advanced_key_combo_process called with any key, pressed or released, and
\* a time that moves on by up to one more than the combo term per call, as
\* the test of advanced_keys.c calls it, MaxRounds times; the timer is about
\* to wrap at the start.
WrapStart == TimerModulus - 2

ComboProcess ==
  \E key \in Keys, pressed \in BOOLEAN, lead \in 0 .. ComboTerm + 1 :
    /\ rounds < MaxRounds
    /\ Sub32(now + lead, WrapStart) <= MaxTime
    /\ Commit(advanced_key_combo_process(
                [ Memory EXCEPT
                    !.rounds = @ + 1,
                    !.now = (now + lead) % TimerModulus,
                    !.log = << Call("advanced_key_combo_process", key, 0, pressed,
                                    (now + lead) % TimerModulus) >> ],
                key, pressed, (now + lead) % TimerModulus).S)

SpecComboTimes ==
  /\ StartsAs([ layout_init(ZeroMemory("th")) EXCEPT !.now = WrapStart ])
  /\ [][ComboProcess]_vars

\* advanced_key_combo_process called in the same way with the combos that
\* share keys
SpecComboTies ==
  /\ StartsAs([ layout_init(ZeroMemory("combos")) EXCEPT !.now = WrapStart ])
  /\ [][ComboProcess]_vars

\* layout_process_key called with any key, pressed or released, as the test
\* of layout.c calls it; what it returned is logged.
ProcessKey ==
  \E key \in Keys, pressed \in BOOLEAN :
    Commit(LogCall(
      layout_process_key([ Memory EXCEPT !.log = << >> ], key, pressed).S,
      Call("returned", key, 0,
           layout_process_key([ Memory EXCEPT !.log = << >> ], key, pressed).r,
           0)))

SpecProcessKey == InitWith({ "kinds" }) /\ [][ProcessKey]_vars

\* layout_get_keycode called with any layer and key, in any state of the
\* layer mask, the default layer and the current profile.
KeycodeLookup ==
  \E current_layer \in Layers, key \in Keys :
    Commit([ Memory EXCEPT !.log =
               << Call("layout_get_keycode", key,
                       layout_get_keycode(Memory, current_layer, key),
                       FALSE, current_layer) >> ])

SpecKeycodeLookup ==
  /\ \E mask \in SUBSET Layers, layer \in Layers, profile \in 0 .. NUM_PROFILES - 1 :
       StartsAs([ layout_init(ZeroMemory("layers"))
                    EXCEPT !.layer_mask = mask, !.default_layer = layer,
                           !.current_profile = profile ])
  /\ [][KeycodeLookup]_vars

\* The profile with invalid advanced key entries
SpecInvalidEntries == InitWith({ "invalid" }) /\ [][Next]_vars

\* The profile with a Macro key
SpecMacroKey == InitWith({ "macro" }) /\ [][Next]_vars

\* The main loop while only the two keys of the Null Bind pair (keys 0 and 1)
\* move.
PairScan ==
  /\ pc = "scan"
  /\ rounds < MaxRounds
  /\ \E d \in { e \in [ Keys -> DistLevels(config) ] :
                   \A k \in Keys \ { 0, 1 } : e[k] = 0 } :
       Commit([ matrix_scan(Memory, d) EXCEPT !.pc = "task", !.rounds = @ + 1 ])

\* The profile with a Null Bind pair of behavior Last and a bottom-out point
SpecNullBindBottom ==
  InitWith({ "nb_bottom" }) /\ [][TimerTick \/ PairScan \/ LayoutTask]_vars

\* The Rapid Trigger profile, matrix_scan alone
SpecRapidTrigger == InitWith({ "rt" }) /\ [][RapidTriggerScan]_vars

\* The profile with a longer combo over the keys of two shorter ones
SpecCombos == InitWith({ "combos" }) /\ [][Next]_vars

\* The main loop that never stops.  The timer runs on for a tapping term
\* after MaxTime; the keys (key 3 stays at rest) move during the first
\* MaxRounds rounds and up to MaxTime, and are read where they are from then
\* on.
LiveTick ==
  /\ pc = "scan"
  /\ now < MaxTime + TappingTerm
  /\ Commit([ Memory EXCEPT !.now = (now + 1) % TimerModulus ])

LiveScan ==
  /\ pc = "scan"
  /\ \E d \in { e \in [ Keys -> DistLevels(config) ] :
                   /\ Cardinality({ k \in Keys : e[k] > 0 }) <= MaxDown
                   /\ e[3] = 0 } :
       /\ ( rounds >= MaxRounds \/ now > MaxTime )
            => \A k \in Keys : d[k] = key_matrix[k].distance
       /\ Commit([ matrix_scan(Memory, d) EXCEPT
                     !.pc = "task",
                     !.rounds = IF @ < MaxRounds THEN @ + 1 ELSE @ ])

\* The timer advances whatever the main loop does (it is enabled between
\* two iterations, hence strong fairness), and the main loop keeps calling
\* matrix_scan and layout_task: LiveScan is enabled exactly when pc = "scan"
\* and LayoutTask exactly when pc = "task", so weak fairness of the two is
\* that the loop is at each of the two positions again and again.
SpecLive ==
  /\ InitWith({ "th_plain" })
  /\ [][LiveTick \/ LiveScan \/ LayoutTask]_vars
  /\ SF_vars(LiveTick)
  /\ []<>(pc = "task") /\ []<>(pc = "scan")

\* The profile with two momentary-layer keys and a key lock on layer 1
SpecKeyLock == InitWith({ "locks" }) /\ [][Next]_vars

\* The profile with two Dynamic Keystroke keys and a combo
SpecCrowd ==
  InitWith({ "crowd" }) /\ [][TimerTick \/ CrowdScan \/ LayoutTask]_vars

\* The profile with a Dynamic Keystroke key
SpecDynamicKeystroke == InitWith({ "dks" }) /\ [][Next]_vars

\* The profile with a Null Bind pair of behavior Distance
SpecNullBindDistance == InitWith({ "nb_distance" }) /\ [][Next]_vars

-----------------------------------------------------------------------------
(* Properties *)

\* A key is released: the matrix reads it up and layout_task has seen it up.
Released(k) == ~key_matrix[k].is_pressed /\ k \notin key_press_states

\* The entries of the log with the given op
LogEntries(op) == { i \in 1 .. Len(log) : log[i].op = op }

\* C1: once a plain key has been pressed and released and the combo queue and
\* the pending buffer are empty again, the keycode its press registered has
\* been unregistered.
C1_ReleasedPlainKeyIsUnregistered ==
  \A k \in Keys :
    (Released(k) /\ event_queue = << >> /\ pending_events = << >>)
      => last_reg[k] = NoReg

\* C2: layout_process_key(key, false) is not invoked while the press of the
\* key is still waiting in the combo queue or in the pending buffer.
C2_ReleaseNeverOvertakesPress ==
  \A i \in LogEntries("pk") : ~log[i].flag => log[i].aux = 0

\* C3: the release of a plain key whose press was processed unregisters the
\* keycode that the press registered, whatever the layers are by then.
C3_ReleaseUnregistersWhatPressRegistered ==
  \A i \in LogEntries("plain_release") :
    log[i].aux # NoReg
      => /\ i < Len(log)
         /\ log[i + 1] = Call("unreg", log[i].key, log[i].aux, FALSE, 0)

\* C3 witness: a plain key is released on another layer than the one it was
\* pressed on, where the keymap gives it another keycode.
C3_Witness ==
  \E i \in LogEntries("plain_release") :
    /\ log[i].aux # NoReg
    /\ layout_get_keycode(Memory, layout_get_current_layer(Memory), log[i].key)
         # log[i].aux

\* C4: no press of a key that is no Tap-Hold key reaches layout_process_key
\* while a Tap-Hold key is undecided and the pending buffer has room.
C4_NoPressProcessedWhileUndecided ==
  \A i \in LogEntries("pk") : log[i].flag => log[i].keycode = 0

\* The keycodes that an advanced key of a profile registers
AkKeycodes(profile, ak) ==
  CASE ak.type = "TAP_HOLD" -> { ak.tap_keycode, ak.hold_keycode }
    [] ak.type = "TOGGLE" -> { ak.keycode }
    [] ak.type = "NULL_BIND" ->
         { profile.keymap[ak.layer + 1][ak.key + 1],
           profile.keymap[ak.layer + 1][ak.secondary_key + 1] }
    [] OTHER -> {}

AdvancedKeycodes ==
  UNION { AkKeycodes(profiles[p], profiles[p].advanced_keys[i]) :
          p \in 1 .. NUM_PROFILES, i \in 1 .. NUM_ADVANCED_KEYS }

\* C5: after the switch to a profile that has no advanced keys, no keycode
\* that an advanced key of the profile before had registered is registered.
C5_ProfileSwitchLeavesNothingRegistered ==
  (\A i \in AkSlots : AdvancedKey(Memory, i).type = "NONE")
    => hid_keycodes \cap AdvancedKeycodes = {}

\* The Tap-Hold key of the Tap-Hold configurations: slot 0, on key 0.
Th == AdvancedKey(Memory, 0)
ThStage == ak_states[0].th_stage
ThElapsed == Sub32(now, ak_states[0].th_since)
ThConfigured == Th.type = "TAP_HOLD"

\* The step is a layout_task.
IsLayoutTask == pc = "task" /\ pc' = "scan"

\* What layout_task is about to see of a key: held, a press edge, a release edge
Held(k) == key_matrix[k].is_pressed /\ k \in key_press_states
PressEdge(k) == key_matrix[k].is_pressed /\ k \notin key_press_states
ReleaseEdge(k) == ~key_matrix[k].is_pressed /\ k \in key_press_states

\* The positions in a log l of the calls op(key, keycode)
Calls(l, op, key, keycode) ==
  { i \in 1 .. Len(l) : l[i].op = op /\ l[i].key = key /\ l[i].keycode = keycode }

\* The positions in a log l of the calls of op
CallsOf(l, op) == { i \in 1 .. Len(l) : l[i].op = op }

\* C6: the release of a Tap-Hold key that was pressed alone, before the
\* tapping term has elapsed, queues the deferred release of the tap keycode
\* and registers the tap keycode, once; the report is sent before the
\* deferred release is run; and until then no layout_task of the press cycle
\* registers the hold keycode.
C6_TapStep ==
  (IsLayoutTask /\ th_alone' /\ ThConfigured /\ ThElapsed < Th.tapping_term)
    => /\ (ThStage = "TAP" /\ ReleaseEdge(Th.key))
            => /\ \E i \in Calls(log', "defer", Th.key, Th.tap_keycode) :
                    /\ Calls(log', "reg", Th.key, Th.tap_keycode) = { i + 1 }
                    /\ \E j \in CallsOf(log', "send") :
                         \E d \in CallsOf(log', "deferred_action_process") :
                           /\ i + 1 < j /\ j < d
                           /\ Calls(log', "unreg", Th.key, Th.tap_keycode) = { d + 1 }
               /\ Calls(log', "reg", Th.key, Th.hold_keycode) = {}
               /\ ak_states'[0].th_stage = "NONE"
       /\ ((ThStage = "TAP" /\ Held(Th.key)) \/ PressEdge(Th.key))
            => /\ Calls(log', "reg", Th.key, Th.hold_keycode) = {}
               /\ Calls(log', "reg", Th.key, Th.tap_keycode) = {}
               /\ ak_states'[0].th_stage = "TAP"

C6_TapRegistersTapOnly == [][C6_TapStep]_vars

\* C6 witness: a Tap-Hold key pressed alone was released as a tap.
C6_Witness ==
  /\ th_alone /\ ThConfigured /\ ThStage = "NONE"
  /\ Calls(log, "reg", Th.key, Th.tap_keycode) # {}
  /\ Calls(log, "defer", Th.key, Th.tap_keycode) # {}

\* C7: a Tap-Hold key that is pressed alone and held is promoted by the tick
\* of the first layout_task at which the tapping term has elapsed, which
\* registers the hold keycode once; before that no tick registers it, after
\* that none registers it again; its release unregisters the hold keycode;
\* the tap keycode is not registered.
C7_HoldStep ==
  (IsLayoutTask /\ th_alone' /\ ThConfigured)
    => /\ (ThStage = "TAP" /\ Held(Th.key) /\ ThElapsed >= Th.tapping_term)
            => /\ \E t \in CallsOf(log', "tick") :
                    Calls(log', "reg", Th.key, Th.hold_keycode) = { t + 1 }
               /\ Calls(log', "reg", Th.key, Th.tap_keycode) = {}
               /\ ak_states'[0].th_stage = "HOLD"
       /\ (ThStage = "TAP" /\ Held(Th.key) /\ ThElapsed < Th.tapping_term)
            => /\ Calls(log', "reg", Th.key, Th.hold_keycode) = {}
               /\ ak_states'[0].th_stage = "TAP"
       /\ (ThStage = "HOLD" /\ Held(Th.key))
            => /\ Calls(log', "reg", Th.key, Th.hold_keycode) = {}
               /\ Calls(log', "reg", Th.key, Th.tap_keycode) = {}
               /\ Calls(log', "unreg", Th.key, Th.hold_keycode) = {}
               /\ ak_states'[0].th_stage = "HOLD"
       /\ (ThStage = "HOLD" /\ ReleaseEdge(Th.key))
            => /\ Cardinality(Calls(log', "unreg", Th.key, Th.hold_keycode)) = 1
               /\ Calls(log', "reg", Th.key, Th.hold_keycode) = {}
               /\ Calls(log', "reg", Th.key, Th.tap_keycode) = {}
               /\ ak_states'[0].th_stage = "NONE"

C7_HoldRegisteredAtTermOnce == [][C7_HoldStep]_vars

\* C7 witness: a Tap-Hold key pressed alone was held into Hold and released.
C7_Witness ==
  /\ th_alone /\ ThConfigured /\ ThStage = "NONE"
  /\ Calls(log, "unreg", Th.key, Th.hold_keycode) # {}

\* The keys whose press is buffered in pending_events
PendingKeys == { pending_events[i].key : i \in 1 .. Len(pending_events) }

\* C8: with permissive_hold, the layout_task that handles the release of a
\* key that was pressed while the Tap-Hold key was undecided promotes the
\* Tap-Hold key to Hold, before the tapping term has elapsed (stated for the
\* layout_task whose tick is due: the timer has advanced since the last tick).
C8_PermissiveStep ==
  (/\ IsLayoutTask /\ ThConfigured /\ Th.permissive_hold
   /\ ThStage = "TAP" /\ Held(Th.key) /\ ThElapsed < Th.tapping_term
   /\ Sub32(now, last_ak_tick) > 0
   /\ \E k \in PendingKeys \ TapHoldKeys(Memory) : ReleaseEdge(k))
    => /\ Calls(log', "reg", Th.key, Th.hold_keycode) # {}
       /\ ak_states'[0].th_stage = "HOLD"

C8_PermissiveHoldPromotesOnRelease == [][C8_PermissiveStep]_vars

\* C9: with hold_on_other_key_press, the layout_task that sees the press of
\* a key that is no Tap-Hold key while the Tap-Hold key is undecided promotes
\* the Tap-Hold key to Hold, and registers the hold keycode before any
\* keycode of the other key (stated for a key that is part of no combo,
\* with the combo queue empty).
C9_HoldOnPressStep ==
  \A k \in Keys \ TapHoldKeys(Memory) :
    (/\ IsLayoutTask /\ ThConfigured /\ Th.hold_on_other_key_press
     /\ ThStage = "TAP" /\ Held(Th.key) /\ ThElapsed < Th.tapping_term
     /\ PressEdge(k) /\ k \notin key_disabled
     /\ event_queue = << >>
     /\ \A i \in AkSlots : AdvancedKey(Memory, i).type = "COMBO"
           => combo_slot_of(AdvancedKey(Memory, i), k) = 0)
      => /\ ak_states'[0].th_stage = "HOLD"
         /\ \E h \in Calls(log', "reg", Th.key, Th.hold_keycode) :
              \A j \in CallsOf(log', "reg") : log'[j].key = k => h < j

C9_HoldOnOtherKeyPressPromotes == [][C9_HoldOnPressStep]_vars

\* C10: with retro_tapping, the release of a Tap-Hold key that was pressed
\* alone and held for longer than the tapping term registers the tap keycode.
C10_RetroStep ==
  (/\ IsLayoutTask /\ th_alone' /\ ThConfigured /\ Th.retro_tapping
   /\ ThStage \in { "TAP", "HOLD" } /\ ReleaseEdge(Th.key)
   /\ ThElapsed > Th.tapping_term)
    => Calls(log', "reg", Th.key, Th.tap_keycode) # {}

C10_RetroTapRegistersTap == [][C10_RetroStep]_vars

\* The Null Bind in slot 0 and the keycodes of its two keys
Nb == AdvancedKey(Memory, 0)
NbKeys == { Nb.key, Nb.secondary_key }
NbOther(k) == IF k = Nb.key THEN Nb.secondary_key ELSE Nb.key
NbKeycode(k) == Keymap(Memory, 0, k)

\* C11: Null Bind, behavior Last, bottom_out_point = 0.  After every
\* layout_task: with neither key held neither keycode is registered; with one
\* key held its keycode is the one registered; with both held exactly one is.
\* A press of one key while the other is held leaves the pressed key's keycode
\* registered and the other's unregistered; a release of the registered key
\* while the other stays held leaves the other's keycode registered.
C11_LastStep ==
  (IsLayoutTask /\ Nb.type = "NULL_BIND" /\ Nb.behavior = "LAST"
   /\ Nb.bottom_out_point = 0)
    => \A k \in NbKeys :
         LET o == NbOther(k)
         IN  /\ (k \notin key_press_states' /\ o \notin key_press_states')
                  => NbKeycode(k) \notin hid_keycodes'
             /\ (k \in key_press_states' /\ o \notin key_press_states')
                  => (NbKeycode(k) \in hid_keycodes'
                      /\ NbKeycode(o) \notin hid_keycodes')
             /\ (k \in key_press_states' /\ o \in key_press_states')
                  => (NbKeycode(k) \in hid_keycodes') # (NbKeycode(o) \in hid_keycodes')
             /\ (PressEdge(k) /\ Held(o))
                  => (NbKeycode(k) \in hid_keycodes'
                      /\ NbKeycode(o) \notin hid_keycodes')
             /\ (ReleaseEdge(k) /\ Held(o) /\ NbKeycode(k) \in hid_keycodes)
                  => (NbKeycode(k) \notin hid_keycodes'
                      /\ NbKeycode(o) \in hid_keycodes')

C11_NullBindLastRegistersLastPressed == [][C11_LastStep]_vars

\* C11 witness: a layout_task has processed the release of the registered key
\* of the pair while the other key was held, and registered the other again.
C11_Witness ==
  /\ pc = "scan" /\ Nb.type = "NULL_BIND" /\ Nb.behavior = "LAST"
  /\ \E k \in NbKeys :
       /\ k \notin key_press_states /\ NbOther(k) \in key_press_states
       /\ \E u \in Calls(log, "unreg", k, NbKeycode(k)) :
            \E r \in Calls(log, "reg", NbOther(k), NbKeycode(NbOther(k))) : u < r

\* The travel distance layout_task reads for a key
Distance(k) == key_matrix[k].distance

\* Of the Null Bind pair only the keycode of k is registered after the step.
NbOnlyRegistered(k) ==
  /\ NbKeycode(k) \in hid_keycodes'
  /\ NbKeycode(NbOther(k)) \notin hid_keycodes'

\* C12: Null Bind, behavior Distance.  After every layout_task that leaves
\* both keys held, the key with the greater travel distance is the only one
\* registered; at equal distances the key that was pressed last is: the key
\* pressed in this layout_task, or the one pressed in the layout_task before
\* when this one sees both keys held.
C12_DistanceStep ==
  (IsLayoutTask /\ Nb.type = "NULL_BIND" /\ Nb.behavior = "DISTANCE"
   /\ NbKeys \subseteq key_press_states')
    => \A k \in NbKeys :
         LET o == NbOther(k)
         IN  /\ Distance(k) > Distance(o) => NbOnlyRegistered(k)
             /\ (Distance(k) = Distance(o) /\ PressEdge(k) /\ Held(o))
                  => NbOnlyRegistered(k)
             /\ (/\ Distance(k) = Distance(o) /\ Held(k) /\ Held(o)
                 /\ \E i \in CallsOf(log, "pk") : log[i].key = k /\ log[i].flag)
                  => NbOnlyRegistered(k)

C12_NullBindDistanceRegistersDeeper == [][C12_DistanceStep]_vars

\* The Toggle key in slot 1 and its state
Tg == AdvancedKey(Memory, 1)
TgState == ak_states[1]
TgElapsed == Sub32(now, ak_states[1].tg_since)

\* C13: Toggle key.  A release within the tapping term of the press that
\* turned the toggle on leaves the keycode registered; the next press turns the
\* toggle off and its release unregisters the keycode; a layout_task that sees
\* the key held once the tapping term has elapsed cancels the toggle, and the
\* release that follows unregisters the keycode with is_toggled = false.
C13_ToggleStep ==
  (IsLayoutTask /\ Tg.type = "TOGGLE")
    => /\ (/\ ReleaseEdge(Tg.key) /\ TgState.tg_stage = "TOGGLE"
           /\ TgElapsed < Tg.tapping_term)
            => (Tg.keycode \in hid_keycodes' /\ ak_states'[1].tg_is_toggled)
       /\ (PressEdge(Tg.key) /\ TgState.tg_is_toggled)
            => (/\ ~ak_states'[1].tg_is_toggled
                /\ ak_states'[1].tg_stage = "NORMAL"
                /\ Tg.keycode \in hid_keycodes')
       /\ (/\ Held(Tg.key) /\ TgState.tg_stage = "TOGGLE"
           /\ TgElapsed >= Tg.tapping_term)
            => (/\ ~ak_states'[1].tg_is_toggled
                /\ ak_states'[1].tg_stage = "NORMAL")
       /\ (ReleaseEdge(Tg.key) /\ TgState.tg_stage = "NORMAL")
            => (/\ Tg.keycode \notin hid_keycodes'
                /\ ~ak_states'[1].tg_is_toggled
                /\ Calls(log', "unreg", Tg.key, Tg.keycode) # {})

C13_ToggleLatchesAndHoldCancels == [][C13_ToggleStep]_vars

\* C13 witness: the Toggle key was released within the tapping term and its
\* keycode is still registered.
C13_Witness ==
  /\ pc = "scan" /\ Tg.type = "TOGGLE"
  /\ Tg.key \notin key_press_states /\ ~key_matrix[Tg.key].is_pressed
  /\ TgState.tg_is_toggled /\ TgState.tg_stage = "NONE"
  /\ Tg.keycode \in hid_keycodes
  /\ Calls(log, "pk", Tg.key, 0) # {}

\* The combo in slot 1, its trigger keys and the calls that execute it
Cb == AdvancedKey(Memory, 1)
CbKeys == { Cb.keys[k] : k \in ComboSlots(Cb) }
CbOnLayer == Cb.type = "COMBO" /\ layout_get_current_layer(Memory) = Cb.layer

\* The presses of the keys ks that a log l shows delivered to layout_process_key
Delivered(l, ks) == { i \in CallsOf(l, "pk") : l[i].flag /\ l[i].key \in ks }

\* C14: when the last trigger key of the combo is pressed within the term of
\* the press of the other, which is still held, and no other key was pressed
\* in between, the layout_task registers the output keycode on key 255 once,
\* queues its deferred release, and no press of a trigger key has been or is
\* delivered to layout_process_key.
C14_ComboStep ==
  \A k \in CbKeys :
    (/\ IsLayoutTask /\ CbOnLayer /\ PressEdge(k)
     /\ last_press.key \in CbKeys \ { k } /\ Held(last_press.key)
     /\ Sub32(now, last_press.time) <= combo_term(Cb))
      => /\ Cardinality(Calls(log', "reg", 255, Cb.output_keycode)) = 1
         /\ Calls(log', "defer", 255, Cb.output_keycode) # {}
         /\ Delivered(log', CbKeys) = {}
         /\ \A m \in CbKeys : last_reg[m] = NoReg /\ last_reg'[m] = NoReg

C14_ComboWithinTermFires == [][C14_ComboStep]_vars

\* The last trigger key of the combo is pressed while the other, the key
\* pressed last before it (with no other key down), is still held; the
\* other's press is older than the combo term, and a layout_task has run
\* since the term expired.
CbLatePress(k) ==
  /\ pc = "task" /\ CbOnLayer /\ PressEdge(k)
  /\ last_press.key \in CbKeys \ { k } /\ Held(last_press.key)
  /\ last_press.fresh
  /\ Sub32(now, last_press.time) > combo_term(Cb)
  /\ Sub32(last_ak_tick, last_press.time) > combo_term(Cb)

\* C15: when the second trigger key is pressed later than the combo term
\* after the first, the first key's press has already been delivered to
\* layout_process_key, the layout_task that handles the second press delivers
\* it too instead of holding it back, and the output keycode is not registered.
C15_LateStep ==
  \A k \in CbKeys :
    (IsLayoutTask /\ CbLatePress(k))
      => /\ last_reg[last_press.key] # NoReg
         /\ Delivered(log', { k }) # {}
         /\ \A i \in 1 .. Len(event_queue') : event_queue'[i].key # k
         /\ \A i \in 1 .. Len(pending_events') : pending_events'[i].key # k
         /\ Calls(log', "reg", 255, Cb.output_keycode) = {}
         /\ Cb.output_keycode \notin hid_keycodes'

C15_ComboOutsideTermReplays == [][C15_LateStep]_vars

\* C15 witness: the second trigger key is pressed outside the term, the first
\* one is held and its press has been delivered.
C15_Witness ==
  \E k \in CbKeys : CbLatePress(k) /\ last_reg[last_press.key] # NoReg

-----------------------------------------------------------------------------
(* Combo consumption *)

\* The presses of key k that wait in a combo queue q for a decision
QueuedPresses(q, k) ==
  { i \in 1 .. Len(q) : q[i].key = k /\ q[i].pressed /\ ~q[i].consumed }

\* The presses of key k that wait in the pending events p of layout_task
PendingPresses(p, k) == { i \in 1 .. Len(p) : p[i].key = k /\ p[i].pressed }

\* The number of presses of key k that wait in p or in q
Waiting(p, q, k) ==
  Cardinality(PendingPresses(p, k)) + Cardinality(QueuedPresses(q, k))

\* The combo executions that a log l shows and that key k is a trigger of
ComboRuns(l, k) ==
  { i \in CallsOf(l, "combo") :
      \E a \in AkSlots :
        /\ AdvancedKey(Memory, a).type = "COMBO"
        /\ AdvancedKey(Memory, a).output_keycode = l[i].keycode
        /\ k \in { AdvancedKey(Memory, a).keys[s] : s \in ComboSlots(AdvancedKey(Memory, a)) } }

\* C16: in every layout_task, for every key, the combo executions the key is
\* a trigger of, the presses of the key delivered to layout_process_key and
\* the presses of the key still waiting (in the pending events or in the combo
\* queue) are together no more than the presses that waited before the task
\* plus the press the task sees; and no event marked consumed stays in the
\* queue for a later execution.
C16_ConsumeStep ==
  IsLayoutTask
    => /\ \A k \in Keys :
            Cardinality(ComboRuns(log', k)) + Cardinality(Delivered(log', { k }))
              + Waiting(pending_events', event_queue', k)
            <= Waiting(pending_events, event_queue, k)
                 + (IF PressEdge(k) THEN 1 ELSE 0)
       /\ \A i \in 1 .. Len(event_queue') : ~event_queue'[i].consumed

C16_PressFeedsOneOutput == [][C16_ConsumeStep]_vars

\* C16 witness: a layout_task has executed the combo, and no press of a
\* trigger key was delivered in it.
C16_Witness ==
  /\ pc = "scan"
  /\ \E k \in CbKeys : ComboRuns(log, k) # {}
  /\ Delivered(log, CbKeys) = {}

-----------------------------------------------------------------------------
(* Rapid Trigger *)

IsScan == pc = "scan" /\ pc' = "scan" /\ key_matrix' # key_matrix

ActuationOf(k) == CURRENT_PROFILE(Memory).actuation_map[k]
RtEnabled(k) == ActuationOf(k).rt_down > 0 /\ k \notin rapid_trigger_disabled
RtResetPoint(k) == IF ActuationOf(k).continuous THEN 0 ELSE ActuationOf(k).actuation_point
RtUp(k) == IF ActuationOf(k).rt_up = 0 THEN ActuationOf(k).rt_down ELSE ActuationOf(k).rt_up

\* The row of the transition table that applies to key k, in direction dir
\* with extremum ext, when it reads distance d: the direction it gives, or
\* "extremum" when only the extremum moves, or "none".
RtRow(k, dir, ext, d) ==
  CASE dir = "INACTIVE" /\ d > ActuationOf(k).actuation_point -> "DOWN"
    [] dir = "DOWN" /\ d <= RtResetPoint(k) -> "INACTIVE"
    [] dir = "DOWN" /\ d > RtResetPoint(k) /\ d + RtUp(k) < ext -> "UP"
    [] dir = "DOWN" /\ d > RtResetPoint(k) /\ d + RtUp(k) >= ext /\ d > ext -> "extremum"
    [] dir = "UP" /\ d <= RtResetPoint(k) -> "INACTIVE"
    [] dir = "UP" /\ d > RtResetPoint(k) /\ ext + ActuationOf(k).rt_down < d -> "DOWN"
    [] dir = "UP" /\ d > RtResetPoint(k) /\ ext + ActuationOf(k).rt_down >= d /\ d < ext
         -> "extremum"
    [] OTHER -> "none"

\* What the table gives for key k after it reads d: direction, extremum and
\* is_pressed.
RtTable(k, d) ==
  LET old == key_matrix[k]
      row == RtRow(k, old.key_dir, old.extremum, d)
  IN  [ key_dir |-> IF row \in { "extremum", "none" } THEN old.key_dir ELSE row,
        extremum |-> IF row = "none" THEN old.extremum ELSE d,
        is_pressed |-> CASE row = "DOWN" -> TRUE
                         [] row \in { "INACTIVE", "UP" } -> FALSE
                         [] OTHER -> old.is_pressed ]

\* C17: for every key with Rapid Trigger enabled, a matrix_scan that reads
\* distance d leaves the direction, extremum and is_pressed that the
\* transition table gives, or, when the table gives a new press, that press
\* reverted (is_pressed false, direction Inactive, extremum as the table).
C17_TableStep ==
  IsScan =>
    \A k \in Keys :
      RtEnabled(k) =>
        LET new == key_matrix'[k]
            exp == RtTable(k, new.distance)
        IN  \/ /\ new.key_dir = exp.key_dir
               /\ new.extremum = exp.extremum
               /\ new.is_pressed = exp.is_pressed
            \/ /\ ~key_matrix[k].is_pressed /\ exp.is_pressed
               /\ new.key_dir = "INACTIVE"
               /\ new.extremum = exp.extremum
               /\ ~new.is_pressed

C17_RapidTriggerFollowsTable == [][C17_TableStep]_vars

\* C17 witness: one Rapid Trigger key was released by Rapid Trigger (direction
\* Up) while another was pressed again by Rapid Trigger at or below its
\* actuation point.
C17_Witness ==
  \E k, j \in Keys :
    /\ RtEnabled(k) /\ RtEnabled(j)
    /\ key_matrix[k].key_dir = "UP" /\ ~key_matrix[k].is_pressed
    /\ key_matrix[j].key_dir = "DOWN" /\ key_matrix[j].is_pressed
    /\ key_matrix[j].distance <= ActuationOf(j).actuation_point

\* The scans of a recording r that gave key 0 a press edge, a release edge
PressEdges(r) == { i \in 2 .. Len(r) : r[i].is_pressed /\ ~r[i - 1].is_pressed }
ReleaseEdges(r) == { i \in 2 .. Len(r) : ~r[i].is_pressed /\ r[i - 1].is_pressed }

ScriptDone == Len(readings) = Len(Script)

\* C18 as stated: over the distances [0, 20, 40, 60, 55, 48, 42, 50] key 0
\* gets a press edge on the scan that reads 40, a release edge on a later scan
\* after the extremum 60, and a second press edge on the last scan.
C18_SecondPressAtFifty ==
  ScriptDone
    => /\ 3 \in PressEdges(readings)
       /\ ReleaseEdges(readings) \cap (5 .. 7) # {}
       /\ 8 \in PressEdges(readings)

\* C18 amended: over the same distances key 0 gets its only press edge on the
\* scan that reads 40 and its only release edge on the scan that reads 48; on
\* the last scan (50, extremum 42) it stays released, in direction Up.
C18_ScriptEdges ==
  ScriptDone
    => /\ PressEdges(readings) = { 3 }
       /\ ReleaseEdges(readings) = { 6 }
       /\ ~key_matrix[0].is_pressed
       /\ key_matrix[0].key_dir = "UP"
       /\ key_matrix[0].extremum = 42

\* C18 witness: the whole script has been replayed, and key 0 was pressed on
\* its third scan.
C18_Witness == ScriptDone /\ readings[3].is_pressed /\ readings[8].distance = 50

-----------------------------------------------------------------------------
(* Simultaneous-press ordering *)

\* The keys whose per-key step in this scan gives a press they did not have
Actuates(k) ==
  /\ ~key_matrix[k].is_pressed
  /\ IF RtEnabled(k) THEN RtTable(k, key_matrix'[k].distance).is_pressed
     ELSE key_matrix'[k].distance >= ActuationOf(k).actuation_point
Actuating == { k \in Keys : Actuates(k) }

\* The keys with a press edge after this scan
NewlyPressed == { k \in Keys : ~key_matrix[k].is_pressed /\ key_matrix'[k].is_pressed }

\* How far past its actuation point key k reads in this scan, and the same
\* counted as 0 for a key that reads at or below the actuation point
Depth(k) == key_matrix'[k].distance - ActuationOf(k).actuation_point
DistanceDelta(k) == IF Depth(k) > 0 THEN Depth(k) ELSE 0

\* C19 as stated: a scan leaves at most one new press; of the keys that
\* actuate in it the one with the greatest distance - actuation_point, the
\* lowest index among equals, keeps its press, and every other one ends the
\* scan not pressed and Inactive.
C19_DepthStep ==
  IsScan =>
    /\ Cardinality(NewlyPressed) <= 1
    /\ \A k \in Actuating :
         IF \A j \in Actuating \ { k } :
              Depth(j) < Depth(k) \/ (Depth(j) = Depth(k) /\ k < j)
         THEN key_matrix'[k].is_pressed
         ELSE ~key_matrix'[k].is_pressed /\ key_matrix'[k].key_dir = "INACTIVE"

C19_DeepestByDepthKept == [][C19_DepthStep]_vars

\* C19 amended: the same with the depth of a key that actuates at or below
\* its actuation point counted as 0.
C19_DeltaStep ==
  IsScan =>
    /\ Cardinality(NewlyPressed) <= 1
    /\ \A k \in Actuating :
         IF \A j \in Actuating \ { k } :
              DistanceDelta(j) < DistanceDelta(k)
              \/ (DistanceDelta(j) = DistanceDelta(k) /\ k < j)
         THEN key_matrix'[k].is_pressed
         ELSE ~key_matrix'[k].is_pressed /\ key_matrix'[k].key_dir = "INACTIVE"

C19_DeepestByDeltaKept == [][C19_DeltaStep]_vars

\* A key that the last scan reverted: it reads past its actuation point and
\* is neither pressed nor in a Rapid Trigger direction.
Reverted(k) ==
  /\ ~key_matrix[k].is_pressed /\ key_matrix[k].key_dir = "INACTIVE"
  /\ IF RtEnabled(k) THEN key_matrix[k].distance > ActuationOf(k).actuation_point
     ELSE key_matrix[k].distance >= ActuationOf(k).actuation_point

\* C19 witness: three keys actuated in one scan at the same depth; the lowest
\* of them is pressed and the two others are reverted.
C19_Witness ==
  \E k, i, j \in Keys :
    /\ k < i /\ i < j
    /\ key_matrix[k].is_pressed /\ Reverted(i) /\ Reverted(j)
    /\ key_matrix[k].distance - ActuationOf(k).actuation_point
         = key_matrix[i].distance - ActuationOf(i).actuation_point
    /\ key_matrix[k].distance - ActuationOf(k).actuation_point
         = key_matrix[j].distance - ActuationOf(j).actuation_point

\* C20: a key whose press the last scan reverted, and that reads the same
\* distance or a deeper one in this scan, is pressed after this scan.
C20_RepressStep ==
  IsScan =>
    \A k \in last_reverted :
      key_matrix'[k].distance >= key_matrix[k].distance => key_matrix'[k].is_pressed

C20_RevertedPressedNextScan == [][C20_RepressStep]_vars

\* The keys of a sequence of events, in order
KeysOf(s) == [ i \in 1 .. Len(s) |-> s[i].key ]

IsPlainPress(e) == e.op = "pk" /\ e.flag /\ ~IsTapHoldKey(Memory, e.key)

\* The presses of keys other than Tap-Hold keys that the task of log l passed
\* to layout_process_key, in order
PlainPresses(l) == KeysOf(SelectSeq(l, IsPlainPress))

\* The press of a key other than a Tap-Hold key that the coming task sees
NewPlainPress ==
  { k \in Keys : PressEdge(k) /\ ~IsTapHoldKey(Memory, k) }

C21_Buffered(k) ==
  /\ KeysOf(pending_events') = Append(KeysOf(pending_events), k)
  /\ PlainPresses(log') = << >>

C21_Overflowed(k) ==
  /\ pending_events' = pending_events
  /\ PlainPresses(log') = << k >>

C21_Replayed(new) ==
  /\ pending_events' = << >>
  /\ \/ new = { } /\ PlainPresses(log') = KeysOf(pending_events)
     \/ \E k \in new :
          PlainPresses(log') \in { Append(KeysOf(pending_events), k),
                                   << k >> \o KeysOf(pending_events) }

C21_TaskStep ==
  IsLayoutTask =>
    /\ Len(pending_events') <= MAX_PENDING_EVENTS
    /\ \A i \in 1 .. Len(pending_events') : pending_events'[i].pressed
    /\ IF advanced_key_has_undecided(Memory')
       THEN \/ NewPlainPress = { } /\ pending_events' = pending_events
                                   /\ PlainPresses(log') = << >>
            \/ \E k \in NewPlainPress :
                 IF Len(pending_events) < MAX_PENDING_EVENTS
                 THEN C21_Buffered(k) ELSE C21_Overflowed(k)
       ELSE C21_Replayed(NewPlainPress)

\* C21: pending_events never holds more than MAX_PENDING_EVENTS presses. In
\* every layout_task that leaves a Tap-Hold key undecided the buffer is kept
\* and a new press of another key is appended to it, or, when the buffer is
\* full, passed to layout_process_key in that task. In the first task that
\* leaves no Tap-Hold key undecided every buffered press is passed to
\* layout_process_key once, in arrival order, and the buffer is emptied.
C21_PendingBufferKept == [][C21_TaskStep]_vars

\* C21 witness: the buffer is full, a Tap-Hold key is undecided, and the task
\* that just ran passed the press of another key to layout_process_key.
C21_Witness ==
  /\ pc = "scan"
  /\ Len(pending_events) = MAX_PENDING_EVENTS
  /\ advanced_key_has_undecided(Memory)
  /\ Delivered(log, Keys \ TapHoldKeys(Memory)) # { }

\* The press of a combo trigger key that the coming task sees
NewComboPress == { k \in CbKeys : PressEdge(k) }

C22_QueueStep ==
  IsLayoutTask =>
    /\ Len(event_queue') <= COMBO_QUEUE_SIZE
    /\ ( Len(event_queue) = COMBO_QUEUE_SIZE /\ NewComboPress # { } )
         => Delivered(log', { Head(event_queue).key }) # { }
    /\ \A k \in Keys :
         ComboRuns(log', k) = { }
           => Cardinality(Delivered(log', { k }))
                + Waiting(pending_events', event_queue', k)
              >= Waiting(pending_events, event_queue, k)
                   + (IF PressEdge(k) THEN 1 ELSE 0)

\* C22: the combo queue never holds more than COMBO_QUEUE_SIZE events; a
\* layout_task that sees the press of a trigger key while the queue is full
\* passes the oldest queued press to layout_process_key; and in a task that
\* executes no combo of a key, every press of the key that waited before the
\* task, and the press the task sees, is delivered or still waits after it.
C22_QueueNeverLosesPress == [][C22_QueueStep]_vars

\* C22 witness: the queue is full after a task that passed a queued press of
\* a trigger key to layout_process_key: the press was pushed onto a full queue.
C22_Witness ==
  /\ pc = "scan"
  /\ Len(event_queue) = COMBO_QUEUE_SIZE
  /\ Delivered(log, CbKeys) # { }

\* The place of the deferred_action_process call in the log of a task
DrainAt(l) == CHOOSE i \in CallsOf(l, "deferred_action_process") : TRUE

\* The layout_register (op = "reg") or layout_unregister (op = "unreg") calls
\* of keycode c in log l, before or after the deferred actions are run
CodeCallsBefore(l, op, c) ==
  { i \in CallsOf(l, op) : l[i].keycode = c /\ i < DrainAt(l) }

CodeCallsAfter(l, op, c) ==
  { i \in CallsOf(l, op) : l[i].keycode = c /\ i > DrainAt(l) }

\* The deferred actions pushed before the deferred actions are run
PushedInTask(l) == { i \in CallsOf(l, "defer") : i < DrainAt(l) }

HidKeycodes == { KC_A, KC_B, KC_C, KC_D, KC_G, KC_LCTL }

C23_SendStep ==
  IsLayoutTask =>
    /\ Cardinality(CallsOf(log', "deferred_action_process")) = 1
    /\ \A s \in CallsOf(log', "send") : s < DrainAt(log')
    /\ \A i \in PushedInTask(log') :
         \E j \in CallsOf(log', "reg") \cup CallsOf(log', "unreg") :
           /\ j > DrainAt(log')
           /\ log'[j].key = log'[i].key /\ log'[j].keycode = log'[i].keycode
    /\ \A c \in HidKeycodes :
         /\ ( /\ CallsOf(log', "send") # { }
              /\ c \notin hid_keycodes
              /\ CodeCallsBefore(log', "reg", c) = { }
              /\ CodeCallsAfter(log', "reg", c) # { } ) => c \notin sent_report'
         /\ ( /\ CallsOf(log', "send") # { }
              /\ c \in hid_keycodes
              /\ CodeCallsBefore(log', "unreg", c) = { }
              /\ CodeCallsAfter(log', "unreg", c) # { } ) => c \in sent_report'
         /\ ( c \in hid_keycodes \ sent_report
              /\ CodeCallsBefore(log', "unreg", c) = { } ) => c \in sent_report'
         /\ ( c \in sent_report \ hid_keycodes
              /\ CodeCallsBefore(log', "reg", c) = { } ) => c \notin sent_report'
    /\ hid_keycodes' # sent_report' => should_send_reports'

\* C23: every layout_task calls hid_send_reports, if at all, before
\* deferred_action_process; the register or unregister of a deferred action
\* pushed in the task comes after both, so the report the task sends does not
\* show it; the report is marked changed and the next task, unless it takes
\* the change back itself, sends it.
C23_DeferredAfterSend == [][C23_SendStep]_vars

\* C23 witness: the task that just ran registered a keycode and pushed its
\* deferred release, sent the report with the keycode, and then ran the
\* release: the keycode is in the sent report and no longer registered.
C23_Witness ==
  /\ pc = "scan"
  /\ CallsOf(log, "send") # { }
  /\ should_send_reports
  /\ \E i \in PushedInTask(log) :
       /\ CodeCallsAfter(log, "unreg", log[i].keycode) # { }
       /\ log[i].keycode \in sent_report \ hid_keycodes

\* The active layers up to current_layer where the key is not transparent
Opaque(current_layer, key) ==
  { i \in 0 .. current_layer :
      i \in layer_mask /\ Keymap(Memory, i, key) # KC_TRANSPARENT }

\* C24: layout_get_keycode(current_layer, key) is the keymap entry of the key
\* on the highest layer up to current_layer that is set in the layer mask and
\* where the key is not transparent, and the entry on the default layer if
\* there is no such layer.
C24_KeycodeOfHighestActiveLayer ==
  \A i \in CallsOf(log, "layout_get_keycode") :
    log[i].keycode =
      IF Opaque(log[i].aux, log[i].key) # { }
      THEN Keymap(Memory, SetMax(Opaque(log[i].aux, log[i].key)), log[i].key)
      ELSE Keymap(Memory, default_layer, log[i].key)

\* C24 witness: a lookup from layer 1 while only layer 0 is active, of a key
\* with a keycode on both layers, on the default layer 1: the result is the
\* keycode of layer 0.
C24_Witness ==
  /\ layer_mask = { 0 } /\ default_layer = 1
  /\ \E i \in CallsOf(log, "layout_get_keycode") :
       /\ log[i].aux = 1
       /\ Keymap(Memory, 1, log[i].key) # KC_TRANSPARENT
       /\ Keymap(Memory, 0, log[i].key) # KC_TRANSPARENT
       /\ log[i].keycode = Keymap(Memory, 0, log[i].key)
       /\ log[i].keycode # Keymap(Memory, 1, log[i].key)

\* What the last call of layout_process_key returned, and its arguments
Returned(l) == l[CHOOSE i \in CallsOf(l, "returned") : TRUE].flag
ProcessedKey(l) == l[CHOOSE i \in CallsOf(l, "pk") : TRUE].key
ProcessedPress(l) == l[CHOOSE i \in CallsOf(l, "pk") : TRUE].flag

IsPlainKey(key) ==
  advanced_key_indices[layout_get_current_layer(Memory)][key] = 0

PlainKeycode(key) ==
  layout_get_keycode(Memory, layout_get_current_layer(Memory), key)

C25_AnyPlainStep ==
  ( CallsOf(log', "returned") # { } /\ ProcessedPress(log') )
    => Returned(log') = ~IsTapHoldKey(Memory, ProcessedKey(log'))

\* C25 as stated: layout_process_key(key, true) returns true if and only if
\* the key is not a Tap-Hold key on the current layer.
C25_TrueIffNotTapHold == [][C25_AnyPlainStep]_vars

\* The type that the slot of an advanced key has once the press is dispatched
TypeAfter(key) ==
  AdvancedKey(Memory',
    advanced_key_indices[layout_get_current_layer(Memory)][key] - 1).type

C25_KeycodeStep ==
  ( CallsOf(log', "returned") # { } /\ ProcessedPress(log') )
    => Returned(log') =
         IF IsPlainKey(ProcessedKey(log'))
         THEN PlainKeycode(ProcessedKey(log')) # KC_NO
         ELSE TypeAfter(ProcessedKey(log')) # "TAP_HOLD"

\* C25: layout_process_key(key, true) returns true if and only if the key
\* is a plain key whose keycode is not KC_NO, or an advanced key on the
\* current layer whose type, once the press is dispatched, is not Tap-Hold.
C25_TrueIffNotTapHoldNorEmpty == [][C25_KeycodeStep]_vars

\* C25 witness: the press of a plain key whose keycode is KC_NO was
\* processed and layout_process_key returned false.
C25_Witness ==
  /\ CallsOf(log, "returned") # { }
  /\ ProcessedPress(log)
  /\ ~Returned(log)
  /\ Calls(log, "reg", ProcessedKey(log), KC_NO) # { }

\* The types that advanced_key_process and the combo code know
AkTypes == { "NULL_BIND", "DYNAMIC_KEYSTROKE", "TAP_HOLD", "TOGGLE", "COMBO" }

\* The slots whose entry the loader is to skip as invalid
InvalidSlots ==
  { i \in AkSlots :
      /\ AdvancedKey(Memory, i).type # "NONE"
      /\ \/ AdvancedKey(Memory, i).type \notin AkTypes
         \/ AdvancedKey(Memory, i).layer >= NUM_LAYERS
         \/ AdvancedKey(Memory, i).key >= NUM_KEYS }

\* The keys that an invalid entry names
InvalidlyBound == { AdvancedKey(Memory, i).key : i \in InvalidSlots } \cap Keys

C26_SkipStep ==
  /\ \A l \in Layers, k \in Keys :
       advanced_key_indices[l][k] = 0
         \/ advanced_key_indices[l][k] - 1 \notin InvalidSlots
  /\ IsLayoutTask =>
       \A k \in InvalidlyBound :
         ( PressEdge(k) /\ Delivered(log', { k }) # { } )
           => Calls(log', "reg", k, PlainKeycode(k)) # { }

\* C26: no entry of advanced_key_indices names a slot whose entry has an
\* unknown type, a layer of NUM_LAYERS or more or a key of NUM_KEYS or more;
\* and the press of a key that such an entry names registers the keycode of
\* the keymap.
C26_InvalidEntriesSkipped == [][C26_SkipStep]_vars

\* The memory S with every time stamp of the combo queue counted from base
Rebased(S, base) ==
  [ S EXCEPT !.event_queue =
      [ i \in 1 .. Len(S.event_queue) |->
          [ S.event_queue[i] EXCEPT !.time = Sub32(S.event_queue[i].time, base) ] ] ]

\* The time stamp of the oldest event in the queue, or else time
QueueBase(time) == IF event_queue = << >> THEN time ELSE event_queue[1].time

\* The log of the call that log l starts with, had it been made with the
\* time stamps counted from the oldest event in the queue
UnwrappedLog(l) ==
  advanced_key_combo_process(
    [ Rebased(Memory, QueueBase(l[1].aux)) EXCEPT !.log = << >> ],
    l[1].key, l[1].flag, Sub32(l[1].aux, QueueBase(l[1].aux))).S.log

C27_WrapStep ==
  ( log' # << >> /\ log'[1].op = "advanced_key_combo_process" )
    => ( ( CallsOf(log', "combo") # { } ) = ( CallsOf(UnwrappedLog(log'), "combo") # { } ) )

\* C27: a call of advanced_key_combo_process executes a combo if and only if
\* the same call does with all time stamps shifted so that the oldest queued
\* event has time 0: a timer wrap between the presses changes nothing.
C27_ComboTimingToleratesWrap == [][C27_WrapStep]_vars

\* A matrix_scan of the main loop
IsMatrixScan == pc = "scan" /\ pc' = "task"

C28_StampStep ==
  IsMatrixScan =>
    \A k \in Keys :
      key_matrix'[k].is_pressed # key_matrix[k].is_pressed
        => key_matrix'[k].event_time = now

\* C28: a matrix_scan that changes is_pressed of a key sets the event_time
\* of the key to the time of the scan.
C28_EdgeIsStamped == [][C28_StampStep]_vars

\* The Macro slot that key k is bound to on the current layer, as a set
MacroSlots(k) ==
  { n \in AkSlots :
      /\ advanced_key_indices[layout_get_current_layer(Memory)][k] = n + 1
      /\ AdvancedKey(Memory, n).type = "MACRO" }

\* The events of the macro of slot n
MacroOf(n) ==
  profiles[current_profile + 1].macros[AdvancedKey(Memory, n).macro_index + 1]

\* The log l shows the first event of the macro of slot n carried out
FirstEventDone(l, n) ==
  \E i \in CallsOf(l, "reg") \cup CallsOf(l, "defer") :
    l[i].keycode = MacroOf(n)[1].keycode

C29_PlaybackStep ==
  IsLayoutTask =>
    \A k \in Keys : \A n \in MacroSlots(k) :
      ( PressEdge(k) /\ Delivered(log', { k }) # { } )
        => \/ /\ ak_states'[n].macro_is_playing
              /\ ak_states'[n].macro_event_index = 0
           \/ FirstEventDone(log', n)

\* C29: the layout_task that processes the press of a key bound to a Macro
\* advanced key starts the playback of its macro: the macro state of the
\* slot is playing at event index 0, or the first event of the macro has
\* already been carried out.
C29_MacroPressStartsPlayback == [][C29_PlaybackStep]_vars

\* Both keys of the Null Bind pair are registered in memory S
NbBoth(S) == S.ak_states[0].nb_is_pressed = << TRUE, TRUE >>

\* Both keys of the pair are at or beyond the bottom-out point
NbBottomedOut ==
  /\ Nb.bottom_out_point > 0
  /\ \A k \in NbKeys : Distance(k) >= Nb.bottom_out_point

\* C30 as stated: after every layout_task, both keys of the Null Bind pair
\* are registered only if bottom_out_point > 0 and both are at or beyond it,
\* and then, both being held, they are.
C30_BothOnlyWhileBottomedOut ==
  ( pc = "scan" /\ Nb.type = "NULL_BIND" )
    => /\ NbBoth(Memory) => NbBottomedOut
       /\ ( NbBottomedOut /\ NbKeys \subseteq key_press_states ) => NbBoth(Memory)

C30_BottomStep ==
  ( IsLayoutTask /\ Nb.type = "NULL_BIND" )
    => /\ NbBoth(Memory')
            => \/ NbBottomedOut
               \/ /\ Nb.behavior # "DISTANCE"
                  /\ NbBoth(Memory) /\ \A k \in NbKeys : Held(k)
       /\ ( NbBottomedOut /\ NbKeys \subseteq key_press_states' ) => NbBoth(Memory')
       /\ ( Nb.behavior # "DISTANCE" /\ NbBoth(Memory) /\ \A k \in NbKeys : Held(k) )
            => NbBoth(Memory')

\* C30: after every layout_task, both keys of the Null Bind pair are
\* registered only if bottom_out_point > 0 and both are at or beyond it, or
\* if the behavior is not Distance, both were registered before the task and
\* both are still held; both held keys at or beyond the bottom-out point are
\* both registered, and stay so while both are held.
C30_BothWhileBottomedOutOrCarried == [][C30_BottomStep]_vars

\* C30 witness: both keys of the pair are registered after a task in which
\* one of them was no longer at the bottom-out point.
C30_Witness ==
  /\ pc = "scan" /\ Nb.type = "NULL_BIND"
  /\ NbBoth(Memory)
  /\ ~NbBottomedOut
  /\ NbKeys \subseteq key_press_states

-----------------------------------------------------------------------------
(* Combos that share keys *)

\* The longer combo (slot 0), the two-key combo executed for its keys (slot 1)
\* and the trigger keys of a combo
CbLong == AdvancedKey(Memory, 0)
CbShort == AdvancedKey(Memory, 1)
CbKeysOf(ak) == { ak.keys[k] : k \in ComboSlots(ak) }

\* The unconsumed presses of key k in a combo queue q
Queued(q, k) == { i \in 1 .. Len(q) : q[i].key = k /\ q[i].pressed /\ ~q[i].consumed }

\* The last key of the shorter combo is pressed while the other, pressed
\* with nothing else down, is held and its press still queued, and the time
\* since that press is within the term of the longer combo: the shorter combo
\* is a full match and the longer one a candidate.
C31_FullWithCandidate(k) ==
  /\ CbLong.type = "COMBO" /\ CbShort.type = "COMBO"
  /\ layout_get_current_layer(Memory) = CbLong.layer
  /\ CbKeysOf(CbShort) \subseteq CbKeysOf(CbLong) /\ CbKeysOf(CbShort) # CbKeysOf(CbLong)
  /\ k \in CbKeysOf(CbShort) /\ PressEdge(k)
  /\ EdgeKeys(Memory) = { k }
  /\ last_press.key \in CbKeysOf(CbShort) \ { k } /\ Held(last_press.key)
  /\ last_press.fresh
  /\ Queued(event_queue, last_press.key) # {}
  /\ Sub32(now, last_press.time) <= combo_term(CbLong)

C31_DeferStep ==
  \A k \in Keys :
    ( IsLayoutTask /\ C31_FullWithCandidate(k) )
      => /\ CallsOf(log', "combo") = {}
         /\ Delivered(log', CbKeysOf(CbShort)) = {}
         /\ \A m \in CbKeysOf(CbShort) : Queued(event_queue', m) # {}

\* C31: while a combo is a full match and a longer combo over the same keys
\* is still a candidate (the oldest queued press is not older than its term),
\* the layout_task executes no combo: no output keycode is registered and the
\* presses stay queued.
C31_FullMatchWaitsForCandidate == [][C31_DeferStep]_vars

\* The call advanced_key_combo_process(key, pressed, time) that a step makes
\* (the first entry of the log it leaves) evaluates the combos: the key is a
\* trigger key, and a release finds the queue not empty.
ComboCall == log'[1]
Evaluates ==
  /\ log' # << >> /\ ComboCall.op = "advanced_key_combo_process"
  /\ \E i \in AkSlots : AdvancedKey(Memory, i).type = "COMBO"
                         /\ ComboCall.key \in CbKeysOf(AdvancedKey(Memory, i))
  /\ Len(event_queue) < COMBO_QUEUE_SIZE
  /\ ComboCall.flag \/ event_queue # << >>

\* The queue that the evaluation looks at
EvalQueue ==
  IF ComboCall.flag
  THEN Append(event_queue, ComboEvent(ComboCall.key, TRUE, ComboCall.aux))
  ELSE event_queue

\* The combos of the current layer with the given status in the evaluation
WithStatus(status) ==
  { i \in AkSlots :
      /\ AdvancedKey(Memory, i).type = "COMBO"
      /\ AdvancedKey(Memory, i).layer = layout_get_current_layer(Memory)
      /\ check_combo_match([ Memory EXCEPT !.event_queue = EvalQueue ],
                           AdvancedKey(Memory, i), ComboCall.aux) = status }

\* Among the combos in F, i has the most keys and, of those, the lowest index
LongestFirst(F, i) ==
  /\ i \in F
  /\ \A j \in F :
        \/ Cardinality(ComboSlots(AdvancedKey(Memory, j)))
             < Cardinality(ComboSlots(AdvancedKey(Memory, i)))
        \/ /\ Cardinality(ComboSlots(AdvancedKey(Memory, j)))
                = Cardinality(ComboSlots(AdvancedKey(Memory, i)))
           /\ i <= j

C32_SelectStep ==
  ( Evaluates /\ WithStatus(2) # {} )
    => /\ Cardinality(CallsOf(log', "combo")) <= 1
       /\ WithStatus(1) = {} => Cardinality(CallsOf(log', "combo")) = 1
       /\ \A c \in CallsOf(log', "combo") :
            \E i \in WithStatus(2) :
              /\ LongestFirst(WithStatus(2), i)
              /\ log'[c].keycode = AdvancedKey(Memory, i).output_keycode

-----------------------------------------------------------------------------
(* Dynamic Keystroke *)

\* The Dynamic Keystroke key in slot 0 and the action (0 = hold, 1 = press,
\* 2 = release, 3 = tap) of its binding i in a phase (1 = press,
\* 2 = bottom-out, 3 = release from bottom-out, 4 = release)
Dks == AdvancedKey(Memory, 0)
DksAction(i, phase) == (Dks.dks_bitmap[i] \div (2 ^ ((phase - 1) * 2))) % 4

C33_PressStep ==
  ( /\ IsLayoutTask /\ Dks.type = "DYNAMIC_KEYSTROKE"
    /\ layout_get_current_layer(Memory) = Dks.layer
    /\ PressEdge(Dks.key)
    /\ Len(deferred_actions) + 4 <= MAX_DEFERRED_ACTIONS )
    => \A i \in 1 .. 4 :
         ( Dks.dks_keycodes[i] # KC_NO /\ DksAction(i, 1) \in { 1, 3 } )
           => Calls(log', "defer", Dks.key, Dks.dks_keycodes[i]) # {}

\* C33: the layout_task that sees the press edge of a Dynamic Keystroke key
\* queues the deferred action of every bound keycode whose press-phase action
\* is PRESS or TAP, whatever the distance the key was read at.
C33_PressPhaseFirst == [][C33_PressStep]_vars

-----------------------------------------------------------------------------
(* Activity of the combo detector *)

\* The only edge that the layout_task will see is the press of a trigger key
\* of the combo while the press of another one is queued: what the combo
\* detector does in this task, it does on that edge, in
\* advanced_key_combo_process.
ComboEdge(k) ==
  /\ CbOnLayer /\ k \in CbKeys
  /\ PressEdge(k) /\ EdgeKeys(Memory) = { k }
  /\ \E m \in CbKeys \ { k } : Queued(event_queue, m) # {}

C34_ActivityStep ==
  \A k \in Keys :
    ( /\ IsLayoutTask /\ ComboEdge(k)
      /\ \/ CallsOf(log', "combo") # {}
         \/ Delivered(log', Keys \ TapHoldKeys(Memory)) # {} )
      => \E i \in CallsOf(log', "tick") : log'[i].flag

\* C34: a layout_task in which the combo detector, handling a key edge,
\* registers a combo output or delivers a queued non-Tap-Hold press to the
\* layout calls advanced_key_tick with has_non_tap_hold_press = true.
C34_ComboActivityReachesTick == [][C34_ActivityStep]_vars

-----------------------------------------------------------------------------
(* The pending buffer is drained *)

C35_TaskStep ==
  IsLayoutTask =>
    /\ \A i \in AkSlots :
         ( AdvancedKey(Memory', i).type = "TAP_HOLD" /\ ak_states'[i].th_stage = "TAP" )
           => Sub32(now, ak_states'[i].th_since) < AdvancedKey(Memory', i).tapping_term
    /\ ( advanced_key_has_undecided(Memory) /\ ~advanced_key_has_undecided(Memory') )
         => pending_events' = << >>

\* C35: no layout_task leaves a Tap-Hold key in stage Tap once its tapping
\* term has elapsed since its press; the layout_task in which the last
\* undecided Tap-Hold key is promoted or released leaves the pending buffer
\* empty; and while the timer advances and the main loop runs, a buffer that
\* holds presses is eventually empty.
C35_PendingEventuallyReplayed ==
  /\ [][C35_TaskStep]_vars
  /\ ( pending_events # << >> ) ~> ( pending_events = << >> )

\* C35 witness: the keys have stopped moving, and the task that just ran
\* promoted the Tap-Hold key on its tapping term and replayed buffered presses.
C35_Witness ==
  /\ pc = "scan" /\ rounds = MaxRounds
  /\ pending_events = << >>
  /\ CallsOf(log, "tick") # {}
  /\ \E i \in AkSlots :
       /\ AdvancedKey(Memory, i).type = "TAP_HOLD"
       /\ ak_states[i].th_stage = "HOLD"
       /\ Calls(log, "reg", AdvancedKey(Memory, i).key,
                AdvancedKey(Memory, i).hold_keycode) # {}
       /\ Sub32(now, ak_states[i].th_since) = AdvancedKey(Memory, i).tapping_term
  /\ Delivered(log, Keys \ TapHoldKeys(Memory)) # {}

------------------------------------------------------------------------------
(* The Toggle key's stage, latch and registration *)

\* C36: for the Toggle key, stage Toggle implies is_toggled, stage Normal
\* implies not is_toggled, and its keycode is registered exactly when its
\* stage is not None or is_toggled.
C36_ToggleStateConsistent ==
  Tg.type = "TOGGLE" =>
    /\ TgState.tg_stage = "TOGGLE" => TgState.tg_is_toggled
    /\ TgState.tg_stage = "NORMAL" => ~TgState.tg_is_toggled
    /\ Tg.keycode \in hid_keycodes
         <=> ( TgState.tg_stage # "NONE" \/ TgState.tg_is_toggled )

\* C36 witness: the task that just ran processed the press that turned the
\* latched toggle off: the key is held in stage Normal, is_toggled is false and
\* the keycode is registered.
C36_Witness ==
  /\ pc = "scan" /\ Tg.type = "TOGGLE"
  /\ Tg.key \in key_press_states
  /\ TgState.tg_stage = "NORMAL" /\ ~TgState.tg_is_toggled
  /\ Tg.keycode \in hid_keycodes
  /\ Calls(log, "reg", Tg.key, Tg.keycode) # {}
  /\ CallsOf(log, "tick") # {}

------------------------------------------------------------------------------
(* Momentary layers and the key lock *)

\* The held keys whose press registered the momentary-layer keycode of layer n
MoHolders(n) ==
  { k \in key_press_states :
      active_advanced_keys[k] = 0 /\ active_keycodes[k] = MO(n) }

C37_HeldStep ==
  ( /\ IsLayoutTask
    /\ \E k, j \in MoHolders(1) :
         k # j /\ ReleaseEdge(j) /\ k \in MoHolders(1)' )
    => 1 \in layer_mask'

\* C37: when two keys that both registered MO(1) are held and a layout_task
\* sees one of them released, the bit of layer 1 is still set after that task,
\* the other key being held.
C37_LayerStaysWhileHeld == [][C37_HeldStep]_vars

\* C38: between two main loop rounds, once the key that locked itself is
\* released and layout_task has seen the release, the keycode that its press
\* registered on layer 1 is not registered.
C38_LockedKeyLeavesNothing ==
  ( /\ pc = "scan" /\ Dks.type = "DYNAMIC_KEYSTROKE"
    /\ Dks.key \in key_disabled
    /\ ~key_matrix[Dks.key].is_pressed /\ Dks.key \notin key_press_states )
    => Dks.dks_keycodes[1] \notin hid_keycodes

------------------------------------------------------------------------------
(* A combo that executes while the deferred queue is full *)

C39_ExecuteStep ==
  IsLayoutTask =>
    \A i \in AkSlots :
      ( /\ AdvancedKey(Memory, i).type = "COMBO"
        /\ Calls(log', "reg", 255,
                 AdvancedKey(Memory, i).output_keycode) # {} )
        => Calls(log', "defer", 255,
                 AdvancedKey(Memory, i).output_keycode) # {}

\* C39: a layout_task in which a combo registers its output keycode on key 255
\* also enqueues the deferred release of that keycode.
C39_OutputNeedsQueuedRelease == [][C39_ExecuteStep]_vars

------------------------------------------------------------------------------
(* Rapid Trigger without continuous mode *)

\* C40: after every matrix_scan, a key with Rapid Trigger enabled and
\* continuous = false is pressed exactly when its direction is Down, and a
\* pressed key is deeper than its actuation point.
C40_PressedIffDown ==
  \A k \in Keys :
    ( RtEnabled(k) /\ ~ActuationOf(k).continuous )
      => /\ key_matrix[k].is_pressed <=> key_matrix[k].key_dir = "DOWN"
         /\ key_matrix[k].is_pressed
              => key_matrix[k].distance > ActuationOf(k).actuation_point

\* C40 witness: of two such keys, one is pressed with direction Down, and the
\* other was released by Rapid Trigger: it is deeper than its actuation point,
\* its direction is Up and it is not pressed.
C40_Witness ==
  \E k, j \in Keys :
    /\ RtEnabled(k) /\ ~ActuationOf(k).continuous
    /\ RtEnabled(j) /\ ~ActuationOf(j).continuous
    /\ key_matrix[k].is_pressed /\ key_matrix[k].key_dir = "DOWN"
    /\ key_matrix[j].key_dir = "UP" /\ ~key_matrix[j].is_pressed
    /\ key_matrix[j].distance > ActuationOf(j).actuation_point

====
